---- MODULE Spec2Model ----
(***************************************************************************)
(* The authentication core of hamsoya-fullstack: the tRPC auth router      *)
(* (src/src/features/auth/server/router.ts), the refresh-token helpers     *)
(* (auth-utils, src/unnamed/part_010), the OTP senders                     *)
(* (src/src/utils/send-*-otp.ts) and the Redis-backed OTP vault            *)
(* (RedisService of @/lib/redis, whose code is not part of the sources and *)
(* is modelled from the specification).                                    *)
(*                                                                         *)
(* Every procedure of the router is one action that runs the whole handler,*)
(* up to its return or its first throw, so the writes a handler makes      *)
(* before it throws are part of the action.  Time is not counted: a key of *)
(* the vault with a TTL, or a refresh-token row with an expiry date, can   *)
(* expire at any moment (the Expire... actions).  Where the interleaving of *)
(* two calls matters, a handler is split at its awaits into the steps of a *)
(* worker (the ..._select, ..._revoke, ... actions over calls).            *)
(***************************************************************************)
EXTENDS Integers, Sequences, FiniteSets, TLC

\* ------------------------------------------------------------------ inputs
Emails == {"a@x.com", "b@x.com"}
Passwords == {"Pw1!Pw1!", "Pw2!Pw2!"}
Roles == {"USER", "SELLER"}
\* generateOTP yields a value of 100000..999999; two of them stand for all
Codes == {123456, 654321}
NoOTP == 0
OtpTypes == {"otp", "password_reset"}
\* the most refresh-token rows the model stores
MaxTokens == 3
\* the cookie header carries no refreshToken cookie
NoCookie == 0 - 1
\* a well-formed token that no login or rotation ever issued
ForgedToken == 0

\* ------------------------------------------------- thresholds of the code
MAX_FAIL_ATTEMPTS == 5
LOCK_MINUTES == 15
RATE_LIMIT_ATTEMPTS == 2
RATE_LIMIT_LOCK_MINUTES == 60
RESEND_RESET_MAX == 2
MAX_SEND_ATTEMPTS_PER_HOUR == 5
REFRESH_TOKEN_EXPIRY == 2592000
COOKIE_MAX_AGE == 2592000

\* calls holds the handler calls that are under way when the calls of two
\* workers interleave at their awaits
\* hook is the state of one useAuth instance in the browser
VARIABLES users, refreshTokens, redis, resp, calls, hook

vars == <<users, refreshTokens, redis, resp, calls, hook>>

\* ------------------------------------------------------ Credential Hasher
hashPassword(password) == <<"bcrypt", password>>

\* mutant: every password passes
verifyPassword_any(password, hash) == TRUE

verifyPassword(password, hash) == hash = <<"bcrypt", password>>

\* ------------------------------------------------------------ Token Codec
hashToken(token) == <<"sha256", token>>

\* crypto.randomBytes(64): a value no earlier row was stored under
generateRefreshToken(rows) == Len(rows) + 1

\* crypto.randomUUID(): a family id no row carries yet
randomUUID(rows) == Len(rows) + 1

\* --------------------------------------------------- Refresh Token Ledger
\* mutant: every stored row starts a family of its own
storeRefreshToken_newFamily(rows, userId, token, familyId) ==
    Append(rows, [userId |-> userId,
                  tokenHash |-> hashToken(token),
                  expiresIn |-> REFRESH_TOKEN_EXPIRY,
                  expired |-> FALSE,
                  isRevoked |-> FALSE,
                  familyId |-> randomUUID(rows)])

\* expiresIn is expiresAt - Date.now() at the insert: the number the code
\* adds to Date.now(), which counts milliseconds
storeRefreshToken(rows, userId, token, familyId) ==
    Append(rows, [userId |-> userId,
                  tokenHash |-> hashToken(token),
                  expiresIn |-> REFRESH_TOKEN_EXPIRY,
                  expired |-> FALSE,
                  isRevoked |-> FALSE,
                  familyId |-> IF familyId # 0 THEN familyId ELSE randomUUID(rows)])

\* mutant: without a family id nothing is revoked
revokeRefreshTokens_familyOnly(rows, userId, familyId) ==
    [i \in DOMAIN rows |->
        IF rows[i].userId = userId /\ rows[i].familyId = familyId
        THEN [rows[i] EXCEPT !.isRevoked = TRUE] ELSE rows[i]]

\* mutant: every row of the user is revoked, whatever its family
revokeRefreshTokens_wholeUser(rows, userId, familyId) ==
    [i \in DOMAIN rows |->
        IF rows[i].userId = userId
        THEN [rows[i] EXCEPT !.isRevoked = TRUE] ELSE rows[i]]

revokeRefreshTokens(rows, userId, familyId) ==
    IF familyId # 0
    THEN [i \in DOMAIN rows |->
            IF rows[i].userId = userId /\ rows[i].familyId = familyId
            THEN [rows[i] EXCEPT !.isRevoked = TRUE] ELSE rows[i]]
    ELSE [i \in DOMAIN rows |->
            IF rows[i].userId = userId
            THEN [rows[i] EXCEPT !.isRevoked = TRUE] ELSE rows[i]]

\* mutant: the lookup does not compare expiresAt with the time
selectValidToken_ignoresExpiry(rows, tokenHash) ==
    {i \in DOMAIN rows : /\ rows[i].tokenHash = tokenHash
                         /\ rows[i].isRevoked = FALSE}

\* select ... where tokenHash = h and isRevoked = false and expiresAt > now
selectValidToken(rows, tokenHash) ==
    {i \in DOMAIN rows : /\ rows[i].tokenHash = tokenHash
                         /\ rows[i].isRevoked = FALSE
                         /\ ~rows[i].expired}

\* select ... where userId = u and tokenHash = h and isRevoked = false and
\* expiresAt < now (lt): the rows whose expiry has passed
verifyRefreshToken(rows, token, userId) ==
    \E i \in DOMAIN rows : /\ rows[i].userId = userId
                            /\ rows[i].tokenHash = hashToken(token)
                            /\ rows[i].isRevoked = FALSE
                            /\ rows[i].expired

\* mutant: the lookup of logout skips revoked rows
selectTokenByHash_notRevoked(rows, tokenHash) ==
    {i \in DOMAIN rows : rows[i].tokenHash = tokenHash /\ ~rows[i].isRevoked}

\* select ... where tokenHash = h
selectTokenByHash(rows, tokenHash) ==
    {i \in DOMAIN rows : rows[i].tokenHash = tokenHash}

\* mutant: the lookup never finds a row
selectUserByEmail_none(us, email) == {}

\* select ... from users where email = e
selectUserByEmail(us, email) == {u \in us : u.email = email}

selectUserById(us, id) == {u \in us : u.id = id}

\* ------------------------------------------- OTP vault (RedisService)
\* One record holds every key of the vault.  attempts, cooldown and lock are
\* keyed by (email, type); the OTP values, the OTP send and fail counters,
\* the staged registration and the reset-verified flag have methods of
\* their own.
EmptyRedis ==
    [registrationData |-> {},
     otp |-> [e \in Emails |-> NoOTP],
     passwordResetOTP |-> [e \in Emails |-> NoOTP],
     attempts |-> [k \in Emails \X OtpTypes |-> 0],
     otpSendCount |-> [e \in Emails |-> 0],
     otpFailCount |-> [e \in Emails |-> 0],
     cooldown |-> [k \in Emails \X OtpTypes |-> FALSE],
     lock |-> [k \in Emails \X OtpTypes |-> 0],
     passwordResetVerified |-> [e \in Emails |-> FALSE]]

getRegistrationData(r, email) == {d \in r.registrationData : d.email = email}

setRegistrationData(r, email, data) ==
    [r EXCEPT !.registrationData =
        (@ \ {d \in @ : d.email = email}) \cup {data}]

deleteRegistrationData(r, email) ==
    [r EXCEPT !.registrationData = @ \ {d \in @ : d.email = email}]

getOTP(r, email) == r.otp[email]

setOTP(r, email, otp) == [r EXCEPT !.otp[email] = otp]

getPasswordResetOTP(r, email) == r.passwordResetOTP[email]

setPasswordResetOTP(r, email, otp) == [r EXCEPT !.passwordResetOTP[email] = otp]

checkCooldown(r, email, type) == r.cooldown[<<email, type>>]

setCooldown(r, email, type) == [r EXCEPT !.cooldown[<<email, type>>] = TRUE]

getAttempts(r, email, type) == r.attempts[<<email, type>>]

incrementAttempts(r, email, type) == [r EXCEPT !.attempts[<<email, type>>] = @ + 1]

getOTPSendCount(r, email) == r.otpSendCount[email]

incrementOTPSendCount(r, email) == [r EXCEPT !.otpSendCount[email] = @ + 1]

getOTPFailCount(r, email) == r.otpFailCount[email]

incrementOTPFailCount(r, email) == [r EXCEPT !.otpFailCount[email] = @ + 1]

checkLock(r, email, type) == r.lock[<<email, type>>] # 0

setLock(r, email, minutes, type) == [r EXCEPT !.lock[<<email, type>>] = minutes]

checkPasswordResetVerified(r, email) == r.passwordResetVerified[email]

setPasswordResetVerified(r, email) == [r EXCEPT !.passwordResetVerified[email] = TRUE]

\* cleanup purges the OTP, the counters and the cooldown of (email, type),
\* and for the reset type the reset-verified flag; the lock and the staged
\* registration stay.
cleanup(r, email, type) ==
    IF type = "otp"
    THEN [r EXCEPT !.otp[email] = NoOTP,
                   !.attempts[<<email, type>>] = 0,
                   !.otpSendCount[email] = 0,
                   !.otpFailCount[email] = 0,
                   !.cooldown[<<email, type>>] = FALSE]
    ELSE [r EXCEPT !.passwordResetOTP[email] = NoOTP,
                   !.attempts[<<email, type>>] = 0,
                   !.cooldown[<<email, type>>] = FALSE,
                   !.passwordResetVerified[email] = FALSE]

\* ------------------------------------------------------------ OTP senders
\* Each returns the vault as the call leaves it and the message of the Error
\* it throws ("" when it returns).
\* mutant: the limiter does not look at the lock
checkOTPRateLimit_noLockCheck(r, email, type) ==
    IF checkCooldown(r, email, type)
    THEN [redis |-> r,
          error |-> "Please wait 60 seconds before requesting another OTP"]
    ELSE IF getAttempts(r, email, type) >= RATE_LIMIT_ATTEMPTS
    THEN [redis |-> setLock(r, email, RATE_LIMIT_LOCK_MINUTES, type),
          error |-> "Too many OTP requests. Please try again in 1 hour."]
    ELSE [redis |-> incrementAttempts(r, email, type), error |-> ""]

checkOTPRateLimit(r, email, type) ==
    IF checkCooldown(r, email, type)
    THEN [redis |-> r,
          error |-> "Please wait 60 seconds before requesting another OTP"]
    ELSE IF getAttempts(r, email, type) >= RATE_LIMIT_ATTEMPTS
    THEN [redis |-> setLock(r, email, RATE_LIMIT_LOCK_MINUTES, type),
          error |-> "Too many OTP requests. Please try again in 1 hour."]
    ELSE IF checkLock(r, email, type)
    THEN [redis |-> r,
          error |-> "Account is temporarily locked. Please try again later."]
    ELSE [redis |-> incrementAttempts(r, email, type), error |-> ""]

\* mutant: the reset limiter works on the keys of the verification purpose
checkPasswordResetRateLimit_sharedKeys(r, email) ==
    checkOTPRateLimit(r, email, "otp")

checkPasswordResetRateLimit(r, email) ==
    IF checkCooldown(r, email, "password_reset")
    THEN [redis |-> r,
          error |-> "Please wait 60 seconds before requesting another OTP"]
    ELSE IF getAttempts(r, email, "password_reset") >= RATE_LIMIT_ATTEMPTS
    THEN [redis |-> setLock(r, email, RATE_LIMIT_LOCK_MINUTES, "password_reset"),
          error |-> "Too many OTP requests. Please try again in 1 hour."]
    ELSE IF checkLock(r, email, "password_reset")
    THEN [redis |-> r,
          error |-> "Account is temporarily locked. Please try again later."]
    ELSE [redis |-> incrementAttempts(r, email, "password_reset"), error |-> ""]

\* otp is the value generateOTP draws, mailOk whether the mail provider
\* accepts the message
sendVerificationOtp(r, us, email, otp, mailOk) ==
    LET registrationData == getRegistrationData(r, email)
        user == selectUserByEmail(us, email)
        limit == checkOTPRateLimit(r, email, "otp")
    IN  IF registrationData = {} /\ user = {}
        THEN [redis |-> r,
              error |-> "No registration data or user found for this email"]
        ELSE IF \E u \in user : u.is_verified
        THEN [redis |-> r, error |-> "User is already verified"]
        ELSE IF limit.error # ""
        THEN limit
        ELSE [redis |-> setCooldown(setOTP(limit.redis, email, otp), email, "otp"),
              error |-> IF mailOk THEN ""
                        ELSE "Failed to send verification email."]

sendPasswordResetOtp(r, us, email, otp, mailOk) ==
    LET user == selectUserByEmail(us, email)
        limit == checkPasswordResetRateLimit(r, email)
    IN  IF user = {}
        THEN [redis |-> r, error |-> "No user found for this email"]
        ELSE IF limit.error # ""
        THEN limit
        ELSE [redis |-> setCooldown(setPasswordResetOTP(limit.redis, email, otp),
                                    email, "password_reset"),
              error |-> IF mailOk THEN ""
                        ELSE "Failed to send password reset email."]

\* -------------------------------------------------------------- responses
\* What a procedure call answers: the call and its input, the tRPC code
\* ("OK" for a returned value) and message, and the set-cookie header
\* (<<>> when none is set, <<value, Max-Age>> otherwise; value NoCookie is
\* the cleared cookie); a login also records the password it was given.  seq flips with every call, so that a call always
\* leaves a new response behind, also when it answers as the call before it.
Reply(op, email, otp, cookie, code, message, remaining, setCookie, userId) ==
    [seq |-> 1 - resp.seq,
     op |-> op, email |-> email, otp |-> otp, cookie |-> cookie,
     code |-> code, message |-> message, remaining |-> remaining,
     setCookie |-> setCookie, userId |-> userId, password |-> ""]

NoReply ==
    [seq |-> 0,
     op |-> "", email |-> "", otp |-> NoOTP, cookie |-> NoCookie,
     code |-> "", message |-> "", remaining |-> 0,
     setCookie |-> <<>>, userId |-> 0, password |-> ""]

\* a row users.insert makes: the id is defaultRandom(), unique in the table
newUserId(us) == Cardinality(us) + 1

\* mutant: the promoted row keeps the column default is_verified = false
insertUser_unverified(us, data) ==
    us \cup {[id |-> newUserId(us),
              name |-> data.name,
              email |-> data.email,
              password_hash |-> data.password_hash,
              role |-> data.role,
              is_verified |-> FALSE]}

insertUser(us, data) ==
    us \cup {[id |-> newUserId(us),
              name |-> data.name,
              email |-> data.email,
              password_hash |-> data.password_hash,
              role |-> data.role,
              is_verified |-> TRUE]}

\* mutant: the update also writes the column default of is_verified
updatePassword_unverifies(us, userId, newPassword) ==
    {IF u.id = userId
     THEN [u EXCEPT !.password_hash = hashPassword(newPassword),
                    !.is_verified = FALSE]
     ELSE u : u \in us}

updatePassword(us, userId, newPassword) ==
    {IF u.id = userId
     THEN [u EXCEPT !.password_hash = hashPassword(newPassword)]
     ELSE u : u \in us}

\* ------------------------------------------------- registration procedures
\* mutant: register writes the user row at once, before any verification
register_insertsUser(email, name, password, role, otp, mailOk) ==
    LET existingUser == selectUserByEmail(users, email)
        registrationData == [name |-> name,
                             email |-> email,
                             password_hash |-> hashPassword(password),
                             role |-> role]
        staged == setRegistrationData(redis, email, registrationData)
        sent == sendVerificationOtp(staged, users, email, otp, mailOk)
    IN  IF existingUser # {}
        THEN /\ resp' = Reply("register", email, NoOTP, NoCookie, "CONFLICT",
                              "User already exists", 0, <<>>, 0)
             /\ UNCHANGED <<users, refreshTokens, redis>>
        ELSE /\ redis' = sent.redis
             /\ users' = insertUser(users, registrationData)
             /\ resp' = IF sent.error # ""
                        THEN Reply("register", email, NoOTP, NoCookie,
                                   "INTERNAL_SERVER_ERROR", sent.error, 0, <<>>, 0)
                        ELSE Reply("register", email, NoOTP, NoCookie, "OK",
                                   "Registration initiated. Please check your email for verification OTP.",
                                   0, <<>>, 0)
             /\ UNCHANGED refreshTokens

register(email, name, password, role, otp, mailOk) ==
    LET existingUser == selectUserByEmail(users, email)
        registrationData == [name |-> name,
                             email |-> email,
                             password_hash |-> hashPassword(password),
                             role |-> role]
        staged == setRegistrationData(redis, email, registrationData)
        sent == sendVerificationOtp(staged, users, email, otp, mailOk)
    IN  IF existingUser # {}
        THEN /\ resp' = Reply("register", email, NoOTP, NoCookie, "CONFLICT",
                              "User already exists", 0, <<>>, 0)
             /\ UNCHANGED <<users, refreshTokens, redis>>
        ELSE /\ redis' = sent.redis
             /\ resp' = IF sent.error # ""
                        THEN Reply("register", email, NoOTP, NoCookie,
                                   "INTERNAL_SERVER_ERROR", sent.error, 0, <<>>, 0)
                        ELSE Reply("register", email, NoOTP, NoCookie, "OK",
                                   "Registration initiated. Please check your email for verification OTP.",
                                   0, <<>>, 0)
             /\ UNCHANGED <<users, refreshTokens>>

verifyOTP(email, otp) ==
    LET failCount == getOTPFailCount(redis, email)
        storedOTP == getOTP(redis, email)
        failed == incrementOTPFailCount(redis, email)
        newFailCount == getOTPFailCount(failed, email)
        remainingAttempts == MAX_FAIL_ATTEMPTS - newFailCount
        registrationData == getRegistrationData(redis, email)
        existingUser == selectUserByEmail(users, email)
    IN  IF failCount >= MAX_FAIL_ATTEMPTS
        THEN /\ resp' = Reply("verifyOTP", email, otp, NoCookie, "TOO_MANY_REQUESTS",
                              "Too many incorrect attempts. Account locked for 15 minutes.",
                              0, <<>>, 0)
             /\ UNCHANGED <<users, refreshTokens, redis>>
        ELSE IF storedOTP = NoOTP
        THEN /\ resp' = Reply("verifyOTP", email, otp, NoCookie, "NOT_FOUND",
                              "OTP expired or not found. Please request a new one.",
                              0, <<>>, 0)
             /\ UNCHANGED <<users, refreshTokens, redis>>
        ELSE IF otp # storedOTP
        THEN IF remainingAttempts <= 0
             THEN /\ redis' = cleanup(setLock(failed, email, LOCK_MINUTES, "otp"),
                                      email, "otp")
                  /\ resp' = Reply("verifyOTP", email, otp, NoCookie, "UNAUTHORIZED",
                                   "Too many incorrect attempts. Account locked for 15 minutes.",
                                   0, <<>>, 0)
                  /\ UNCHANGED <<users, refreshTokens>>
             ELSE /\ redis' = failed
                  /\ resp' = Reply("verifyOTP", email, otp, NoCookie, "UNAUTHORIZED",
                                   "Incorrect OTP. ${remainingAttempts} attempts remaining.",
                                   remainingAttempts, <<>>, 0)
                  /\ UNCHANGED <<users, refreshTokens>>
        ELSE IF registrationData = {}
        THEN /\ resp' = Reply("verifyOTP", email, otp, NoCookie, "NOT_FOUND",
                              "Registration data expired. Please register again.",
                              0, <<>>, 0)
             /\ UNCHANGED <<users, refreshTokens, redis>>
        ELSE IF existingUser # {}
        THEN /\ resp' = Reply("verifyOTP", email, otp, NoCookie, "CONFLICT",
                              "User already exists", 0, <<>>, 0)
             /\ UNCHANGED <<users, refreshTokens, redis>>
        ELSE /\ users' = insertUser(users, CHOOSE d \in registrationData : TRUE)
             /\ redis' = deleteRegistrationData(cleanup(redis, email, "otp"), email)
             /\ resp' = Reply("verifyOTP", email, otp, NoCookie, "OK",
                              "Email verified successfully. Account created!",
                              0, <<>>, 0)
             /\ UNCHANGED refreshTokens

resendOTP(email, otp, mailOk) ==
    LET registrationData == getRegistrationData(redis, email)
        sendCount == getOTPSendCount(redis, email)
        sent == sendVerificationOtp(redis, users, email, otp, mailOk)
    IN  IF registrationData = {}
        THEN /\ resp' = Reply("resendOTP", email, NoOTP, NoCookie, "NOT_FOUND",
                              "No pending registration found for this email.",
                              0, <<>>, 0)
             /\ UNCHANGED <<users, refreshTokens, redis>>
        ELSE IF checkCooldown(redis, email, "otp")
        THEN /\ resp' = Reply("resendOTP", email, NoOTP, NoCookie, "TOO_MANY_REQUESTS",
                              "Please wait ${remaining} seconds before requesting another OTP.",
                              0, <<>>, 0)
             /\ UNCHANGED <<users, refreshTokens, redis>>
        ELSE IF sendCount >= MAX_SEND_ATTEMPTS_PER_HOUR
        THEN /\ resp' = Reply("resendOTP", email, NoOTP, NoCookie, "TOO_MANY_REQUESTS",
                              "Maximum OTP requests exceeded for this hour.",
                              0, <<>>, 0)
             /\ UNCHANGED <<users, refreshTokens, redis>>
        ELSE IF sent.error # ""
        THEN /\ redis' = sent.redis
             /\ resp' = Reply("resendOTP", email, NoOTP, NoCookie,
                              "INTERNAL_SERVER_ERROR", sent.error, 0, <<>>, 0)
             /\ UNCHANGED <<users, refreshTokens>>
        ELSE /\ redis' = incrementOTPSendCount(setCooldown(sent.redis, email, "otp"),
                                               email)
             /\ resp' = Reply("resendOTP", email, NoOTP, NoCookie, "OK",
                              "OTP resent successfully. Please check your email.",
                              0, <<>>, 0)
             /\ UNCHANGED <<users, refreshTokens>>

\* ------------------------------------------------------------------ login
login(email, password) ==
    LET userResult == selectUserByEmail(users, email)
        user == CHOOSE u \in userResult : TRUE
        refreshToken == generateRefreshToken(refreshTokens)
        Answer(code, message, setCookie, userId) ==
            [Reply("login", email, NoOTP, NoCookie, code, message, 0, setCookie, userId)
                EXCEPT !.password = password]
    IN  IF userResult = {}
        THEN /\ resp' = Answer("UNAUTHORIZED", "Invalid email or password", <<>>, 0)
             /\ UNCHANGED <<users, refreshTokens, redis>>
        ELSE IF ~user.is_verified
        THEN /\ resp' = Answer("UNAUTHORIZED", "Please verify your email before logging in",
                                <<>>, 0)
             /\ UNCHANGED <<users, refreshTokens, redis>>
        ELSE IF ~verifyPassword(password, user.password_hash)
        THEN /\ resp' = Answer("UNAUTHORIZED", "Invalid email or password", <<>>, 0)
             /\ UNCHANGED <<users, refreshTokens, redis>>
        ELSE /\ Len(refreshTokens) < MaxTokens
             /\ refreshTokens' = storeRefreshToken(refreshTokens, user.id, refreshToken, 0)
             /\ resp' = Answer("OK", "", <<refreshToken, COOKIE_MAX_AGE>>, user.id)
             /\ UNCHANGED <<users, redis>>

\* --------------------------------------------- password reset procedures
forgotPassword(email, otp, mailOk) ==
    LET userResult == selectUserByEmail(users, email)
        sent == sendPasswordResetOtp(redis, users, email, otp, mailOk)
    IN  IF userResult = {}
        THEN /\ resp' = Reply("forgotPassword", email, NoOTP, NoCookie, "OK",
                              "If an account with that email exists, a reset link has been sent.",
                              0, <<>>, 0)
             /\ UNCHANGED <<users, refreshTokens, redis>>
        ELSE /\ redis' = sent.redis
             /\ resp' = IF sent.error # ""
                        THEN Reply("forgotPassword", email, NoOTP, NoCookie,
                                   "INTERNAL_SERVER_ERROR", sent.error, 0, <<>>, 0)
                        ELSE Reply("forgotPassword", email, NoOTP, NoCookie, "OK",
                                   "If an account with that email exists, a reset link has been sent.",
                                   0, <<>>, 0)
             /\ UNCHANGED <<users, refreshTokens>>

verifyForgetPasswordOTP(email, otp) ==
    LET userResult == selectUserByEmail(users, email)
        failCount == getAttempts(redis, email, "password_reset")
        storedOTP == getPasswordResetOTP(redis, email)
        failed == incrementAttempts(redis, email, "password_reset")
        newFailCount == getAttempts(failed, email, "password_reset")
        remainingAttempts == MAX_FAIL_ATTEMPTS - newFailCount
    IN  IF userResult = {}
        THEN /\ resp' = Reply("verifyForgetPasswordOTP", email, otp, NoCookie,
                              "NOT_FOUND", "No user found with this email", 0, <<>>, 0)
             /\ UNCHANGED <<users, refreshTokens, redis>>
        ELSE IF failCount >= MAX_FAIL_ATTEMPTS
        THEN /\ resp' = Reply("verifyForgetPasswordOTP", email, otp, NoCookie,
                              "TOO_MANY_REQUESTS",
                              "Too many incorrect attempts. Account locked for 15 minutes.",
                              0, <<>>, 0)
             /\ UNCHANGED <<users, refreshTokens, redis>>
        ELSE IF storedOTP = NoOTP
        THEN /\ resp' = Reply("verifyForgetPasswordOTP", email, otp, NoCookie,
                              "NOT_FOUND",
                              "OTP expired or not found. Please request a new one.",
                              0, <<>>, 0)
             /\ UNCHANGED <<users, refreshTokens, redis>>
        ELSE IF otp # storedOTP
        THEN IF remainingAttempts <= 0
             THEN /\ redis' = cleanup(setLock(failed, email, LOCK_MINUTES,
                                              "password_reset"),
                                      email, "password_reset")
                  /\ resp' = Reply("verifyForgetPasswordOTP", email, otp, NoCookie,
                                   "UNAUTHORIZED",
                                   "Too many incorrect attempts. Account locked for 15 minutes.",
                                   0, <<>>, 0)
                  /\ UNCHANGED <<users, refreshTokens>>
             ELSE /\ redis' = failed
                  /\ resp' = Reply("verifyForgetPasswordOTP", email, otp, NoCookie,
                                   "UNAUTHORIZED",
                                   "Incorrect OTP. ${remainingAttempts} attempts remaining.",
                                   remainingAttempts, <<>>, 0)
                  /\ UNCHANGED <<users, refreshTokens>>
        ELSE /\ redis' = setPasswordResetVerified(redis, email)
             /\ resp' = Reply("verifyForgetPasswordOTP", email, otp, NoCookie, "OK",
                              "Password reset OTP verified successfully", 0, <<>>, 0)
             /\ UNCHANGED <<users, refreshTokens>>

resendPasswordResetOTP(email, otp, mailOk) ==
    LET userResult == selectUserByEmail(users, email)
        sendCount == getAttempts(redis, email, "password_reset")
        sent == sendPasswordResetOtp(redis, users, email, otp, mailOk)
    IN  IF userResult = {}
        THEN /\ resp' = Reply("resendPasswordResetOTP", email, NoOTP, NoCookie,
                              "NOT_FOUND", "No user found with this email", 0, <<>>, 0)
             /\ UNCHANGED <<users, refreshTokens, redis>>
        ELSE IF checkCooldown(redis, email, "password_reset")
        THEN /\ resp' = Reply("resendPasswordResetOTP", email, NoOTP, NoCookie,
                              "TOO_MANY_REQUESTS",
                              "Please wait ${remaining} seconds before requesting another OTP.",
                              0, <<>>, 0)
             /\ UNCHANGED <<users, refreshTokens, redis>>
        ELSE IF sendCount >= RESEND_RESET_MAX
        THEN /\ resp' = Reply("resendPasswordResetOTP", email, NoOTP, NoCookie,
                              "TOO_MANY_REQUESTS",
                              "Maximum OTP requests exceeded. Please try again later.",
                              0, <<>>, 0)
             /\ UNCHANGED <<users, refreshTokens, redis>>
        ELSE IF sent.error # ""
        THEN /\ redis' = sent.redis
             /\ resp' = Reply("resendPasswordResetOTP", email, NoOTP, NoCookie,
                              "INTERNAL_SERVER_ERROR", sent.error, 0, <<>>, 0)
             /\ UNCHANGED <<users, refreshTokens>>
        ELSE /\ redis' = incrementAttempts(
                            setCooldown(sent.redis, email, "password_reset"),
                            email, "password_reset")
             /\ resp' = Reply("resendPasswordResetOTP", email, NoOTP, NoCookie, "OK",
                              "Password reset OTP resent successfully. Please check your email.",
                              0, <<>>, 0)
             /\ UNCHANGED <<users, refreshTokens>>

\* mutant: the password is rewritten without looking at the verified flag
resetPassword_unverified(email, newPassword) ==
    LET userResult == selectUserByEmail(users, email)
        user == CHOOSE u \in userResult : TRUE
    IN  IF userResult = {}
        THEN /\ resp' = Reply("resetPassword", email, NoOTP, NoCookie, "NOT_FOUND",
                              "User not found", 0, <<>>, 0)
             /\ UNCHANGED <<users, refreshTokens, redis>>
        ELSE /\ users' = updatePassword(users, user.id, newPassword)
             /\ refreshTokens' = revokeRefreshTokens(refreshTokens, user.id, 0)
             /\ redis' = cleanup(redis, email, "password_reset")
             /\ resp' = Reply("resetPassword", email, NoOTP, NoCookie, "OK",
                              "Password reset successfully", 0, <<>>, user.id)

\* mutant: the reset leaves the vault as it is
resetPassword_noCleanup(email, newPassword) ==
    LET isVerified == checkPasswordResetVerified(redis, email)
        userResult == selectUserByEmail(users, email)
        user == CHOOSE u \in userResult : TRUE
    IN  IF ~isVerified
        THEN /\ resp' = Reply("resetPassword", email, NoOTP, NoCookie, "UNAUTHORIZED",
                              "Password reset not verified. Please verify the OTP first.",
                              0, <<>>, 0)
             /\ UNCHANGED <<users, refreshTokens, redis>>
        ELSE IF userResult = {}
        THEN /\ resp' = Reply("resetPassword", email, NoOTP, NoCookie, "NOT_FOUND",
                              "User not found", 0, <<>>, 0)
             /\ UNCHANGED <<users, refreshTokens, redis>>
        ELSE /\ users' = updatePassword(users, user.id, newPassword)
             /\ refreshTokens' = revokeRefreshTokens(refreshTokens, user.id, 0)
             /\ resp' = Reply("resetPassword", email, NoOTP, NoCookie, "OK",
                              "Password reset successfully", 0, <<>>, user.id)
             /\ UNCHANGED redis

resetPassword(email, newPassword) ==
    LET isVerified == checkPasswordResetVerified(redis, email)
        userResult == selectUserByEmail(users, email)
        user == CHOOSE u \in userResult : TRUE
    IN  IF ~isVerified
        THEN /\ resp' = Reply("resetPassword", email, NoOTP, NoCookie, "UNAUTHORIZED",
                              "Password reset not verified. Please verify the OTP first.",
                              0, <<>>, 0)
             /\ UNCHANGED <<users, refreshTokens, redis>>
        ELSE IF userResult = {}
        THEN /\ resp' = Reply("resetPassword", email, NoOTP, NoCookie, "NOT_FOUND",
                              "User not found", 0, <<>>, 0)
             /\ UNCHANGED <<users, refreshTokens, redis>>
        ELSE /\ users' = updatePassword(users, user.id, newPassword)
             /\ refreshTokens' = revokeRefreshTokens(refreshTokens, user.id, 0)
             /\ redis' = cleanup(redis, email, "password_reset")
             /\ resp' = Reply("resetPassword", email, NoOTP, NoCookie, "OK",
                              "Password reset successfully", 0, <<>>, user.id)

\* the query the reset form polls: the data of its successResponse
checkPasswordResetVerification(email) ==
    [isVerified |-> checkPasswordResetVerified(redis, email)]

\* ------------------------------------------------------ refresh and logout
\* cookie is what the request carries: NoCookie, or the raw token
refreshToken(cookie) ==
    LET tokenHash == hashToken(cookie)
        result == selectValidToken(refreshTokens, tokenHash)
        tokenRecord == refreshTokens[CHOOSE i \in result : TRUE]
        userResult == selectUserById(users, tokenRecord.userId)
        newRefreshToken == generateRefreshToken(refreshTokens)
    IN  IF cookie = NoCookie
        THEN /\ resp' = Reply("refreshToken", "", NoOTP, cookie, "UNAUTHORIZED",
                              "No refresh token", 0, <<>>, 0)
             /\ UNCHANGED <<users, refreshTokens, redis>>
        ELSE IF result = {}
        THEN /\ resp' = Reply("refreshToken", "", NoOTP, cookie, "UNAUTHORIZED",
                              "Invalid refresh token", 0, <<>>, 0)
             /\ UNCHANGED <<users, refreshTokens, redis>>
        ELSE IF userResult = {}
        THEN /\ resp' = Reply("refreshToken", "", NoOTP, cookie, "UNAUTHORIZED",
                              "User not found", 0, <<>>, 0)
             /\ UNCHANGED <<users, refreshTokens, redis>>
        ELSE /\ Len(refreshTokens) < MaxTokens
             /\ refreshTokens' =
                    storeRefreshToken(
                        revokeRefreshTokens(refreshTokens, tokenRecord.userId,
                                            tokenRecord.familyId),
                        tokenRecord.userId, newRefreshToken, tokenRecord.familyId)
             /\ resp' = Reply("refreshToken", "", NoOTP, cookie, "OK", "",
                              0, <<newRefreshToken, COOKIE_MAX_AGE>>, tokenRecord.userId)
             /\ UNCHANGED <<users, redis>>

logout(cookie) ==
    LET tokenHash == hashToken(cookie)
        result == selectTokenByHash(refreshTokens, tokenHash)
        row == refreshTokens[CHOOSE i \in result : TRUE]
    IN  /\ refreshTokens' =
            IF cookie # NoCookie /\ result # {}
            THEN revokeRefreshTokens(refreshTokens, row.userId, row.familyId)
            ELSE refreshTokens
        /\ resp' = Reply("logout", "", NoOTP, cookie, "OK", "Logged out successfully",
                         0, <<NoCookie, 0>>, 0)
        /\ UNCHANGED <<users, redis>>

\* ------------------------------------------------------------ time passes
\* A key with a TTL disappears when its TTL runs out; a refresh-token row
\* stops matching expiresAt > now.  The procedure that next reads the key
\* finds it gone, so expiry leaves the last response as it is.
ExpireOTP(email, type) ==
    /\ IF type = "otp" THEN redis.otp[email] # NoOTP
                       ELSE redis.passwordResetOTP[email] # NoOTP
    /\ redis' = IF type = "otp" THEN [redis EXCEPT !.otp[email] = NoOTP]
                ELSE [redis EXCEPT !.passwordResetOTP[email] = NoOTP]
    /\ UNCHANGED <<users, refreshTokens, resp>>

ExpireRegistrationData(email) ==
    /\ getRegistrationData(redis, email) # {}
    /\ redis' = deleteRegistrationData(redis, email)
    /\ UNCHANGED <<users, refreshTokens, resp>>

ExpireCooldown(email, type) ==
    /\ redis.cooldown[<<email, type>>]
    /\ redis' = [redis EXCEPT !.cooldown[<<email, type>>] = FALSE]
    /\ UNCHANGED <<users, refreshTokens, resp>>

ExpireLock(email, type) ==
    /\ redis.lock[<<email, type>>] # 0
    /\ redis' = [redis EXCEPT !.lock[<<email, type>>] = 0]
    /\ UNCHANGED <<users, refreshTokens, resp>>

ExpireAttempts(email, type) ==
    /\ redis.attempts[<<email, type>>] # 0
    /\ redis' = [redis EXCEPT !.attempts[<<email, type>>] = 0]
    /\ UNCHANGED <<users, refreshTokens, resp>>

ExpireOTPSendCount(email) ==
    /\ redis.otpSendCount[email] # 0
    /\ redis' = [redis EXCEPT !.otpSendCount[email] = 0]
    /\ UNCHANGED <<users, refreshTokens, resp>>

ExpireOTPFailCount(email) ==
    /\ redis.otpFailCount[email] # 0
    /\ redis' = [redis EXCEPT !.otpFailCount[email] = 0]
    /\ UNCHANGED <<users, refreshTokens, resp>>

ExpirePasswordResetVerified(email) ==
    /\ redis.passwordResetVerified[email]
    /\ redis' = [redis EXCEPT !.passwordResetVerified[email] = FALSE]
    /\ UNCHANGED <<users, refreshTokens, resp>>

\* Every row lives equally long, so the rows expire in the order of their
\* insertion.
ExpireRefreshToken(i) ==
    /\ ~refreshTokens[i].expired
    /\ \A j \in 1 .. (i - 1) : refreshTokens[j].expired
    /\ refreshTokens' = [refreshTokens EXCEPT ![i].expired = TRUE]
    /\ UNCHANGED <<users, redis, resp>>

\* -------------------------------------------------------- the state machine
Names == {"Ann Lee"}

\* the workers whose calls can interleave
Workers == {1, 2}

Idle == [pc |-> "idle"]

NoCalls == [w \in Workers |-> Idle]

\* hook is one useAuth instance in the browser: whether it is mounted, the
\* module's access token ("none", "fresh": more than 60 seconds from its
\* exp, "near": within 60 seconds of it or past it), refreshTimeoutRef.current
\* (0 for null), the timers that are set and have neither fired nor been
\* cleared, and the number of refresh.mutateAsync() calls not yet settled
NoHook ==
    [status |-> "new", accessToken |-> "none", refreshTimeoutRef |-> 0,
     timers |-> {}, inFlight |-> 0]

Cookies == {NoCookie, ForgedToken} \cup (1 .. Len(refreshTokens))

\* the state after construction: empty tables, empty vault, nothing answered
Init ==
    /\ users = {}
    /\ refreshTokens = <<>>
    /\ redis = EmptyRedis
    /\ resp = NoReply
    /\ calls = NoCalls
    /\ hook = NoHook

RegistrationOps(E) ==
    \/ \E e \in E, n \in Names, p \in Passwords, ro \in Roles,
          c \in Codes, ok \in BOOLEAN : register(e, n, p, ro, c, ok) /\ UNCHANGED <<calls, hook>>
    \/ \E e \in E, c \in Codes : verifyOTP(e, c) /\ UNCHANGED <<calls, hook>>
    \/ \E e \in E, c \in Codes, ok \in BOOLEAN : resendOTP(e, c, ok) /\ UNCHANGED <<calls, hook>>

ResetOps(E) ==
    \/ \E e \in E, c \in Codes, ok \in BOOLEAN : forgotPassword(e, c, ok) /\ UNCHANGED <<calls, hook>>
    \/ \E e \in E, c \in Codes : verifyForgetPasswordOTP(e, c) /\ UNCHANGED <<calls, hook>>
    \/ \E e \in E, c \in Codes, ok \in BOOLEAN : resendPasswordResetOTP(e, c, ok) /\ UNCHANGED <<calls, hook>>
    \/ \E e \in E, p \in Passwords : resetPassword(e, p) /\ UNCHANGED <<calls, hook>>

SessionOps(E) ==
    \/ \E e \in E, p \in Passwords : login(e, p) /\ UNCHANGED <<calls, hook>>
    \/ \E t \in Cookies : refreshToken(t) /\ UNCHANGED <<calls, hook>>
    \/ \E t \in Cookies : logout(t) /\ UNCHANGED <<calls, hook>>

VaultExpiry(E) ==
    \/ \E e \in E, ty \in OtpTypes : ExpireOTP(e, ty) /\ UNCHANGED <<calls, hook>>
    \/ \E e \in E : ExpireRegistrationData(e) /\ UNCHANGED <<calls, hook>>
    \/ \E e \in E, ty \in OtpTypes : ExpireCooldown(e, ty) /\ UNCHANGED <<calls, hook>>
    \/ \E e \in E, ty \in OtpTypes : ExpireLock(e, ty) /\ UNCHANGED <<calls, hook>>
    \/ \E e \in E, ty \in OtpTypes : ExpireAttempts(e, ty) /\ UNCHANGED <<calls, hook>>
    \/ \E e \in E : ExpireOTPSendCount(e) /\ UNCHANGED <<calls, hook>>
    \/ \E e \in E : ExpireOTPFailCount(e) /\ UNCHANGED <<calls, hook>>
    \/ \E e \in E : ExpirePasswordResetVerified(e) /\ UNCHANGED <<calls, hook>>

TokenExpiry ==
    \E i \in DOMAIN refreshTokens : ExpireRefreshToken(i) /\ UNCHANGED <<calls, hook>>

\* the whole system: every procedure, for every email, and the passing of time
Next ==
    \/ RegistrationOps(Emails)
    \/ ResetOps(Emails)
    \/ SessionOps(Emails)
    \/ VaultExpiry(Emails)
    \/ TokenExpiry

Spec == Init /\ [][Next]_vars

\* The OTP flows of one email, from the empty system: registration and
\* verification, then the password reset of the account they create.
NextOTP ==
    \/ RegistrationOps({"a@x.com"})
    \/ ResetOps({"a@x.com"})
    \/ VaultExpiry({"a@x.com"})

SpecOTP == Init /\ [][NextOTP]_vars

\* The session procedures over accounts that exist: a@x.com and b@x.com have
\* registered and verified, or b@x.com is a row the registration flow did
\* not make (the column is_verified defaults to false).
RegistrationOf(email, password) ==
    [name |-> "Ann Lee", email |-> email,
     password_hash |-> hashPassword(password), role |-> "USER"]

RegisteredUser == insertUser({}, RegistrationOf("a@x.com", "Pw1!Pw1!"))

LegacyUser ==
    [id |-> 2, name |-> "Bob Ray", email |-> "b@x.com",
     password_hash |-> hashPassword("Pw1!Pw1!"), role |-> "USER",
     is_verified |-> FALSE]

InitSession ==
    /\ users \in {insertUser(RegisteredUser, RegistrationOf("b@x.com", "Pw1!Pw1!")),
                  RegisteredUser \cup {LegacyUser}}
    /\ refreshTokens = <<>>
    /\ redis = EmptyRedis
    /\ resp = NoReply
    /\ calls = NoCalls
    /\ hook = NoHook

NextSession ==
    \/ SessionOps(Emails)
    \/ TokenExpiry

SpecSession == InitSession /\ [][NextSession]_vars

\* The password reset of an account that holds sessions: a@x.com has
\* registered, logs in and refreshes, asks for a reset code, verifies it and
\* resets its password.
InitReset ==
    /\ users = RegisteredUser
    /\ refreshTokens = <<>>
    /\ redis = EmptyRedis
    /\ resp = NoReply
    /\ calls = NoCalls
    /\ hook = NoHook

NextReset ==
    \/ \E p \in Passwords : login("a@x.com", p) /\ UNCHANGED <<calls, hook>>
    \/ \E t \in Cookies : refreshToken(t) /\ UNCHANGED <<calls, hook>>
    \/ \E ok \in BOOLEAN : forgotPassword("a@x.com", 123456, ok) /\ UNCHANGED <<calls, hook>>
    \/ \E c \in Codes : verifyForgetPasswordOTP("a@x.com", c) /\ UNCHANGED <<calls, hook>>
    \/ \E p \in Passwords : resetPassword("a@x.com", p) /\ UNCHANGED <<calls, hook>>
    \/ ExpireCooldown("a@x.com", "password_reset") /\ UNCHANGED <<calls, hook>>
    \/ TokenExpiry

SpecReset == InitReset /\ [][NextReset]_vars

\* The life of one account from the empty system: a@x.com registers and
\* verifies, logs in, and changes its password through the reset flow.
NextAccount ==
    \/ \E p \in Passwords, ok \in BOOLEAN :
          register("a@x.com", "Ann Lee", p, "USER", 123456, ok) /\ UNCHANGED <<calls, hook>>
    \/ \E c \in Codes : verifyOTP("a@x.com", c) /\ UNCHANGED <<calls, hook>>
    \/ \E p \in Passwords : login("a@x.com", p) /\ UNCHANGED <<calls, hook>>
    \/ \E ok \in BOOLEAN : forgotPassword("a@x.com", 654321, ok) /\ UNCHANGED <<calls, hook>>
    \/ \E c \in Codes : verifyForgetPasswordOTP("a@x.com", c) /\ UNCHANGED <<calls, hook>>
    \/ \E p \in Passwords : resetPassword("a@x.com", p) /\ UNCHANGED <<calls, hook>>
    \/ \E ty \in OtpTypes : ExpireCooldown("a@x.com", ty) /\ UNCHANGED <<calls, hook>>

SpecAccount == Init /\ [][NextAccount]_vars

\* ------------------------------------------- refreshToken, await by await
\* The handler of refreshToken as a worker runs it: the lookups, then the
\* UPDATE of revokeRefreshTokens, then the INSERT of storeRefreshToken, each
\* its own statement with no transaction around them, so the statements of
\* another call can run in between.
refreshToken_select(w, cookie) ==
    LET tokenHash == hashToken(cookie)
        result == selectValidToken(refreshTokens, tokenHash)
        tokenRecord == refreshTokens[CHOOSE i \in result : TRUE]
        userResult == selectUserById(users, tokenRecord.userId)
    IN  /\ calls[w].pc = "idle"
        /\ IF cookie = NoCookie
           THEN /\ resp' = Reply("refreshToken", "", NoOTP, cookie, "UNAUTHORIZED",
                                 "No refresh token", 0, <<>>, 0)
                /\ UNCHANGED calls
           ELSE IF result = {}
           THEN /\ resp' = Reply("refreshToken", "", NoOTP, cookie, "UNAUTHORIZED",
                                 "Invalid refresh token", 0, <<>>, 0)
                /\ UNCHANGED calls
           ELSE IF userResult = {}
           THEN /\ resp' = Reply("refreshToken", "", NoOTP, cookie, "UNAUTHORIZED",
                                 "User not found", 0, <<>>, 0)
                /\ UNCHANGED calls
           ELSE /\ calls' = [calls EXCEPT ![w] =
                                [pc |-> "revoke", cookie |-> cookie,
                                 tokenRecord |-> tokenRecord]]
                /\ UNCHANGED resp
        /\ UNCHANGED <<users, refreshTokens, redis>>

refreshToken_revoke(w) ==
    /\ calls[w].pc = "revoke"
    /\ refreshTokens' = revokeRefreshTokens(refreshTokens, calls[w].tokenRecord.userId,
                                            calls[w].tokenRecord.familyId)
    /\ calls' = [calls EXCEPT ![w].pc = "store"]
    /\ UNCHANGED <<users, redis, resp>>

refreshToken_store(w) ==
    LET tokenRecord == calls[w].tokenRecord
        newRefreshToken == generateRefreshToken(refreshTokens)
    IN  /\ calls[w].pc = "store"
        /\ Len(refreshTokens) < MaxTokens
        /\ refreshTokens' = storeRefreshToken(refreshTokens, tokenRecord.userId,
                                              newRefreshToken, tokenRecord.familyId)
        /\ resp' = Reply("refreshToken", "", NoOTP, calls[w].cookie, "OK", "",
                         0, <<newRefreshToken, COOKIE_MAX_AGE>>, tokenRecord.userId)
        /\ calls' = [calls EXCEPT ![w] = Idle]
        /\ UNCHANGED <<users, redis>>

\* the INSERT of storeRefreshToken fails (the database refuses or drops the
\* statement): the Error leaves the handler, nothing undoes the UPDATE that
\* revokeRefreshTokens made before it
refreshToken_storeFails(w) ==
    /\ calls[w].pc = "store"
    /\ resp' = Reply("refreshToken", "", NoOTP, calls[w].cookie,
                     "INTERNAL_SERVER_ERROR", "Failed query: insert into refresh_tokens",
                     0, <<>>, 0)
    /\ calls' = [calls EXCEPT ![w] = Idle]
    /\ UNCHANGED <<users, refreshTokens, redis>>

\* a@x.com logs in, and two workers serve the refreshToken calls that follow
NextRotate ==
    \/ login("a@x.com", "Pw1!Pw1!") /\ UNCHANGED <<calls, hook>>
    \/ \E w \in Workers, t \in Cookies : refreshToken_select(w, t) /\ UNCHANGED hook
    \/ \E w \in Workers : refreshToken_revoke(w) /\ UNCHANGED hook
    \/ \E w \in Workers : refreshToken_store(w) /\ UNCHANGED hook
    \/ TokenExpiry

SpecRotate == InitReset /\ [][NextRotate]_vars

\* the same, with a database that can fail the INSERT of a rotation
NextRotateFaulty ==
    \/ NextRotate
    \/ \E w \in Workers : refreshToken_storeFails(w) /\ UNCHANGED hook

SpecRotateFaulty == InitReset /\ [][NextRotateFaulty]_vars

\* ----------------------------------- register and verifyOTP, await by await
\* The handlers of register and verifyOTP as a worker runs them.  Every
\* await on the vault or on the database is a step of its own; what a step
\* read stays in the worker's call (calls[w]) while other workers move.
\* The users table carries a unique constraint on email: an INSERT that
\* meets a row with the same email fails, and the handler, which does not
\* catch it, ends with INTERNAL_SERVER_ERROR.
UniqueViolation ==
    "duplicate key value violates unique constraint \"users_email_unique\""

register_select(w, email, name, password, role, otp, mailOk) ==
    LET existingUser == selectUserByEmail(users, email)
    IN  /\ calls[w].pc = "idle"
        /\ IF existingUser # {}
           THEN /\ resp' = Reply("register", email, NoOTP, NoCookie, "CONFLICT",
                                 "User already exists", 0, <<>>, 0)
                /\ UNCHANGED calls
           ELSE /\ calls' = [calls EXCEPT ![w] =
                                [pc |-> "setRegistrationData", email |-> email,
                                 otp |-> otp, mailOk |-> mailOk,
                                 registrationData |->
                                    [name |-> name,
                                     email |-> email,
                                     password_hash |-> hashPassword(password),
                                     role |-> role]]]
                /\ UNCHANGED resp
        /\ UNCHANGED <<users, refreshTokens, redis>>

register_setRegistrationData(w) ==
    /\ calls[w].pc = "setRegistrationData"
    /\ redis' = setRegistrationData(redis, calls[w].email, calls[w].registrationData)
    /\ calls' = [calls EXCEPT ![w].pc = "sendVerificationOtp"]
    /\ UNCHANGED <<users, refreshTokens, resp>>

\* sendVerificationOtp, first half: the lookups of the staged payload and
\* of the user, and the two throws that rest on them
register_sendVerificationOtp_select(w) ==
    LET email == calls[w].email
        registrationData == getRegistrationData(redis, email)
        user == selectUserByEmail(users, email)
    IN  /\ calls[w].pc = "sendVerificationOtp"
        /\ IF registrationData = {} /\ user = {}
           THEN /\ resp' = Reply("register", email, NoOTP, NoCookie,
                                 "INTERNAL_SERVER_ERROR",
                                 "No registration data or user found for this email",
                                 0, <<>>, 0)
                /\ calls' = [calls EXCEPT ![w] = Idle]
           ELSE IF \E u \in user : u.is_verified
           THEN /\ resp' = Reply("register", email, NoOTP, NoCookie,
                                 "INTERNAL_SERVER_ERROR", "User is already verified",
                                 0, <<>>, 0)
                /\ calls' = [calls EXCEPT ![w] = Idle]
           ELSE /\ calls' = [calls EXCEPT ![w].pc = "checkOTPRateLimit"]
                /\ UNCHANGED resp
        /\ UNCHANGED <<users, refreshTokens, redis>>

\* sendVerificationOtp, second half: the limiter, the OTP, the cooldown and
\* the mail, which write the vault only
register_sendVerificationOtp_send(w) ==
    LET email == calls[w].email
        limit == checkOTPRateLimit(redis, email, "otp")
    IN  /\ calls[w].pc = "checkOTPRateLimit"
        /\ IF limit.error # ""
           THEN /\ redis' = limit.redis
                /\ resp' = Reply("register", email, NoOTP, NoCookie,
                                 "INTERNAL_SERVER_ERROR", limit.error, 0, <<>>, 0)
           ELSE /\ redis' = setCooldown(setOTP(limit.redis, email, calls[w].otp),
                                        email, "otp")
                /\ resp' = IF calls[w].mailOk
                           THEN Reply("register", email, NoOTP, NoCookie, "OK",
                                      "Registration initiated. Please check your email for verification OTP.",
                                      0, <<>>, 0)
                           ELSE Reply("register", email, NoOTP, NoCookie,
                                      "INTERNAL_SERVER_ERROR",
                                      "Failed to send verification email.", 0, <<>>, 0)
        /\ calls' = [calls EXCEPT ![w] = Idle]
        /\ UNCHANGED <<users, refreshTokens>>

verifyOTP_getOTPFailCount(w, email, otp) ==
    LET failCount == getOTPFailCount(redis, email)
    IN  /\ calls[w].pc = "idle"
        /\ IF failCount >= MAX_FAIL_ATTEMPTS
           THEN /\ resp' = Reply("verifyOTP", email, otp, NoCookie, "TOO_MANY_REQUESTS",
                                 "Too many incorrect attempts. Account locked for 15 minutes.",
                                 0, <<>>, 0)
                /\ UNCHANGED calls
           ELSE /\ calls' = [calls EXCEPT ![w] =
                                [pc |-> "getOTP", email |-> email, otp |-> otp]]
                /\ UNCHANGED resp
        /\ UNCHANGED <<users, refreshTokens, redis>>

\* reads the stored OTP and compares the candidate with what it read
verifyOTP_getOTP(w) ==
    LET email == calls[w].email
        otp == calls[w].otp
        storedOTP == getOTP(redis, email)
    IN  /\ calls[w].pc = "getOTP"
        /\ IF storedOTP = NoOTP
           THEN /\ resp' = Reply("verifyOTP", email, otp, NoCookie, "NOT_FOUND",
                                 "OTP expired or not found. Please request a new one.",
                                 0, <<>>, 0)
                /\ calls' = [calls EXCEPT ![w] = Idle]
           ELSE /\ calls' = [calls EXCEPT ![w].pc =
                                IF otp # storedOTP THEN "incrementOTPFailCount"
                                ELSE "getRegistrationData"]
                /\ UNCHANGED resp
        /\ UNCHANGED <<users, refreshTokens, redis>>

verifyOTP_incrementOTPFailCount(w) ==
    LET email == calls[w].email
        failed == incrementOTPFailCount(redis, email)
        newFailCount == getOTPFailCount(failed, email)
        remainingAttempts == MAX_FAIL_ATTEMPTS - newFailCount
    IN  /\ calls[w].pc = "incrementOTPFailCount"
        /\ redis' = failed
        /\ IF remainingAttempts <= 0
           THEN /\ calls' = [calls EXCEPT ![w].pc = "setLock"]
                /\ UNCHANGED resp
           ELSE /\ resp' = Reply("verifyOTP", email, calls[w].otp, NoCookie,
                                 "UNAUTHORIZED",
                                 "Incorrect OTP. ${remainingAttempts} attempts remaining.",
                                 remainingAttempts, <<>>, 0)
                /\ calls' = [calls EXCEPT ![w] = Idle]
        /\ UNCHANGED <<users, refreshTokens>>

verifyOTP_setLock(w) ==
    /\ calls[w].pc = "setLock"
    /\ redis' = setLock(redis, calls[w].email, LOCK_MINUTES, "otp")
    /\ calls' = [calls EXCEPT ![w].pc = "cleanupLocked"]
    /\ UNCHANGED <<users, refreshTokens, resp>>

verifyOTP_cleanupLocked(w) ==
    /\ calls[w].pc = "cleanupLocked"
    /\ redis' = cleanup(redis, calls[w].email, "otp")
    /\ resp' = Reply("verifyOTP", calls[w].email, calls[w].otp, NoCookie,
                     "UNAUTHORIZED",
                     "Too many incorrect attempts. Account locked for 15 minutes.",
                     0, <<>>, 0)
    /\ calls' = [calls EXCEPT ![w] = Idle]
    /\ UNCHANGED <<users, refreshTokens>>

verifyOTP_getRegistrationData(w) ==
    LET email == calls[w].email
        registrationData == getRegistrationData(redis, email)
    IN  /\ calls[w].pc = "getRegistrationData"
        /\ IF registrationData = {}
           THEN /\ resp' = Reply("verifyOTP", email, calls[w].otp, NoCookie, "NOT_FOUND",
                                 "Registration data expired. Please register again.",
                                 0, <<>>, 0)
                /\ calls' = [calls EXCEPT ![w] = Idle]
           ELSE /\ calls' = [calls EXCEPT ![w] =
                                [pc |-> "selectUser", email |-> email,
                                 otp |-> calls[w].otp,
                                 registrationData |->
                                    CHOOSE d \in registrationData : TRUE]]
                /\ UNCHANGED resp
        /\ UNCHANGED <<users, refreshTokens, redis>>

verifyOTP_selectUser(w) ==
    LET email == calls[w].email
        existingUser == selectUserByEmail(users, email)
    IN  /\ calls[w].pc = "selectUser"
        /\ IF existingUser # {}
           THEN /\ resp' = Reply("verifyOTP", email, calls[w].otp, NoCookie, "CONFLICT",
                                 "User already exists", 0, <<>>, 0)
                /\ calls' = [calls EXCEPT ![w] = Idle]
           ELSE /\ calls' = [calls EXCEPT ![w].pc = "insert"]
                /\ UNCHANGED resp
        /\ UNCHANGED <<users, refreshTokens, redis>>

\* mutant: the users table has no unique constraint on email
verifyOTP_insert_noUnique(w) ==
    /\ calls[w].pc = "insert"
    /\ users' = insertUser(users, calls[w].registrationData)
    /\ calls' = [calls EXCEPT ![w].pc = "cleanup"]
    /\ UNCHANGED <<refreshTokens, redis, resp>>

verifyOTP_insert(w) ==
    LET email == calls[w].email
    IN  /\ calls[w].pc = "insert"
        /\ IF \E u \in users : u.email = email
           THEN /\ resp' = Reply("verifyOTP", email, calls[w].otp, NoCookie,
                                 "INTERNAL_SERVER_ERROR", UniqueViolation, 0, <<>>, 0)
                /\ calls' = [calls EXCEPT ![w] = Idle]
                /\ UNCHANGED users
           ELSE /\ users' = insertUser(users, calls[w].registrationData)
                /\ calls' = [calls EXCEPT ![w].pc = "cleanup"]
                /\ UNCHANGED resp
        /\ UNCHANGED <<refreshTokens, redis>>

verifyOTP_cleanup(w) ==
    /\ calls[w].pc = "cleanup"
    /\ redis' = cleanup(redis, calls[w].email, "otp")
    /\ calls' = [calls EXCEPT ![w].pc = "deleteRegistrationData"]
    /\ UNCHANGED <<users, refreshTokens, resp>>

verifyOTP_deleteRegistrationData(w) ==
    /\ calls[w].pc = "deleteRegistrationData"
    /\ redis' = deleteRegistrationData(redis, calls[w].email)
    /\ resp' = Reply("verifyOTP", calls[w].email, calls[w].otp, NoCookie, "OK",
                     "Email verified successfully. Account created!", 0, <<>>, 0)
    /\ calls' = [calls EXCEPT ![w] = Idle]
    /\ UNCHANGED <<users, refreshTokens>>

\* two workers serve the register and verifyOTP calls for a@x.com
NextRace ==
    \/ \E w \in Workers, p \in Passwords :
          register_select(w, "a@x.com", "Ann Lee", p, "USER", 123456, TRUE) /\ UNCHANGED hook
    \/ \E w \in Workers : register_setRegistrationData(w) /\ UNCHANGED hook
    \/ \E w \in Workers : register_sendVerificationOtp_select(w) /\ UNCHANGED hook
    \/ \E w \in Workers : register_sendVerificationOtp_send(w) /\ UNCHANGED hook
    \/ \E w \in Workers, c \in Codes : verifyOTP_getOTPFailCount(w, "a@x.com", c) /\ UNCHANGED hook
    \/ \E w \in Workers : verifyOTP_getOTP(w) /\ UNCHANGED hook
    \/ \E w \in Workers : verifyOTP_incrementOTPFailCount(w) /\ UNCHANGED hook
    \/ \E w \in Workers : verifyOTP_setLock(w) /\ UNCHANGED hook
    \/ \E w \in Workers : verifyOTP_cleanupLocked(w) /\ UNCHANGED hook
    \/ \E w \in Workers : verifyOTP_getRegistrationData(w) /\ UNCHANGED hook
    \/ \E w \in Workers : verifyOTP_selectUser(w) /\ UNCHANGED hook
    \/ \E w \in Workers : verifyOTP_insert(w) /\ UNCHANGED hook
    \/ \E w \in Workers : verifyOTP_cleanup(w) /\ UNCHANGED hook
    \/ \E w \in Workers : verifyOTP_deleteRegistrationData(w) /\ UNCHANGED hook

SpecRace == Init /\ [][NextRace]_vars

\* ----------------------------------------- forgotPassword, await by await
\* Two requests for a reset OTP run side by side; each await of
\* forgotPassword, sendPasswordResetOtp and checkPasswordResetRateLimit is a
\* step of its own, and the steps of the two calls interleave.
ForgotFails(w, message) ==
    /\ resp' = Reply("forgotPassword", calls[w].email, NoOTP, NoCookie,
                     "INTERNAL_SERVER_ERROR", message, 0, <<>>, 0)
    /\ calls' = [calls EXCEPT ![w] = Idle]

forgotPassword_select(w, email, otp, mailOk) ==
    LET userResult == selectUserByEmail(users, email)
    IN  /\ calls[w].pc = "idle"
        /\ IF userResult = {}
           THEN /\ resp' = Reply("forgotPassword", email, NoOTP, NoCookie, "OK",
                                 "If an account with that email exists, a reset link has been sent.",
                                 0, <<>>, 0)
                /\ UNCHANGED calls
           ELSE /\ calls' = [calls EXCEPT ![w] =
                                [pc |-> "sendPasswordResetOtp", email |-> email,
                                 otp |-> otp, mailOk |-> mailOk]]
                /\ UNCHANGED resp
        /\ UNCHANGED <<users, refreshTokens, redis>>

forgotPassword_sendPasswordResetOtp_select(w) ==
    LET user == selectUserByEmail(users, calls[w].email)
    IN  /\ calls[w].pc = "sendPasswordResetOtp"
        /\ IF user = {}
           THEN ForgotFails(w, "No user found for this email")
           ELSE /\ calls' = [calls EXCEPT ![w].pc = "checkCooldown"]
                /\ UNCHANGED resp
        /\ UNCHANGED <<users, refreshTokens, redis>>

forgotPassword_checkCooldown(w) ==
    /\ calls[w].pc = "checkCooldown"
    /\ IF checkCooldown(redis, calls[w].email, "password_reset")
       THEN ForgotFails(w, "Please wait 60 seconds before requesting another OTP")
       ELSE /\ calls' = [calls EXCEPT ![w].pc = "getAttempts"]
            /\ UNCHANGED resp
    /\ UNCHANGED <<users, refreshTokens, redis>>

forgotPassword_getAttempts(w) ==
    /\ calls[w].pc = "getAttempts"
    /\ IF getAttempts(redis, calls[w].email, "password_reset") >= RATE_LIMIT_ATTEMPTS
       THEN /\ redis' = setLock(redis, calls[w].email, RATE_LIMIT_LOCK_MINUTES,
                                "password_reset")
            /\ ForgotFails(w, "Too many OTP requests. Please try again in 1 hour.")
       ELSE /\ calls' = [calls EXCEPT ![w].pc = "checkLock"]
            /\ UNCHANGED <<resp, redis>>
    /\ UNCHANGED <<users, refreshTokens>>

forgotPassword_checkLock(w) ==
    /\ calls[w].pc = "checkLock"
    /\ IF checkLock(redis, calls[w].email, "password_reset")
       THEN ForgotFails(w, "Account is temporarily locked. Please try again later.")
       ELSE /\ calls' = [calls EXCEPT ![w].pc = "incrementAttempts"]
            /\ UNCHANGED resp
    /\ UNCHANGED <<users, refreshTokens, redis>>

forgotPassword_incrementAttempts(w) ==
    /\ calls[w].pc = "incrementAttempts"
    /\ redis' = incrementAttempts(redis, calls[w].email, "password_reset")
    /\ calls' = [calls EXCEPT ![w].pc = "setPasswordResetOTP"]
    /\ UNCHANGED <<users, refreshTokens, resp>>

forgotPassword_setPasswordResetOTP(w) ==
    /\ calls[w].pc = "setPasswordResetOTP"
    /\ redis' = setPasswordResetOTP(redis, calls[w].email, calls[w].otp)
    /\ calls' = [calls EXCEPT ![w].pc = "setCooldown"]
    /\ UNCHANGED <<users, refreshTokens, resp>>

forgotPassword_setCooldown(w) ==
    /\ calls[w].pc = "setCooldown"
    /\ redis' = setCooldown(redis, calls[w].email, "password_reset")
    /\ calls' = [calls EXCEPT ![w].pc = "sendPasswordResetEmail"]
    /\ UNCHANGED <<users, refreshTokens, resp>>

forgotPassword_sendPasswordResetEmail(w) ==
    /\ calls[w].pc = "sendPasswordResetEmail"
    /\ IF calls[w].mailOk
       THEN /\ resp' = Reply("forgotPassword", calls[w].email, NoOTP, NoCookie, "OK",
                             "If an account with that email exists, a reset link has been sent.",
                             0, <<>>, 0)
            /\ calls' = [calls EXCEPT ![w] = Idle]
       ELSE ForgotFails(w, "Failed to send password reset email.")
    /\ UNCHANGED <<users, refreshTokens, redis>>

NextSend ==
    \/ \E w \in Workers, e \in Emails, c \in Codes, ok \in BOOLEAN :
          forgotPassword_select(w, e, c, ok) /\ UNCHANGED hook
    \/ \E w \in Workers : forgotPassword_sendPasswordResetOtp_select(w) /\ UNCHANGED hook
    \/ \E w \in Workers : forgotPassword_checkCooldown(w) /\ UNCHANGED hook
    \/ \E w \in Workers : forgotPassword_getAttempts(w) /\ UNCHANGED hook
    \/ \E w \in Workers : forgotPassword_checkLock(w) /\ UNCHANGED hook
    \/ \E w \in Workers : forgotPassword_incrementAttempts(w) /\ UNCHANGED hook
    \/ \E w \in Workers : forgotPassword_setPasswordResetOTP(w) /\ UNCHANGED hook
    \/ \E w \in Workers : forgotPassword_setCooldown(w) /\ UNCHANGED hook
    \/ \E w \in Workers : forgotPassword_sendPasswordResetEmail(w) /\ UNCHANGED hook
    \/ ExpireCooldown("a@x.com", "password_reset") /\ UNCHANGED <<calls, hook>>
    \/ ExpireAttempts("a@x.com", "password_reset") /\ UNCHANGED <<calls, hook>>

SpecSend == InitReset /\ [][NextSend]_vars

\* ------------------------------------------------- useAuth: silent refresh
MaxTimers == 3
MaxInFlight == 4

clearTimeout(h, id) == [h EXCEPT !.timers = @ \ {id}]

\* setTimeout returns an id no live timer carries
FreeTimers(h) == {id \in 1 .. MaxTimers : id \notin h.timers /\ id # h.refreshTimeoutRef}

\* scheduleTokenRefresh: nothing without a token; a token within 60 seconds
\* of its expiry is refreshed at once; otherwise the timer the ref holds is
\* cleared and a new one is set and kept in the ref
scheduleTokenRefresh(h) ==
    IF h.accessToken = "none"
    THEN h
    ELSE IF h.accessToken = "near"
    THEN [h EXCEPT !.inFlight = @ + 1]
    ELSE LET cleared == IF h.refreshTimeoutRef # 0
                        THEN clearTimeout(h, h.refreshTimeoutRef) ELSE h
             id == CHOOSE t \in FreeTimers(h) : TRUE
         IN  [cleared EXCEPT !.timers = @ \cup {id}, !.refreshTimeoutRef = id]

\* the bounds leave room for what scheduleTokenRefresh would start
CanSchedule(h) ==
    /\ h.accessToken = "near" => h.inFlight < MaxInFlight
    /\ h.accessToken = "fresh" => FreeTimers(h) # {}

\* the effect of the first render
useAuth_mount ==
    /\ hook.status = "new"
    /\ LET h == [hook EXCEPT !.status = "mounted"]
       IN  /\ CanSchedule(h)
           /\ hook' = scheduleTokenRefresh(h)
    /\ UNCHANGED <<users, refreshTokens, redis, resp, calls>>

\* scheduleTokenRefresh is a new callback (refresh or queryClient changed):
\* the effect's cleanup runs, then the effect runs again
useAuth_effectAgain ==
    /\ hook.status = "mounted"
    /\ LET h == IF hook.refreshTimeoutRef # 0
                THEN clearTimeout(hook, hook.refreshTimeoutRef) ELSE hook
       IN  /\ CanSchedule(h)
           /\ hook' = scheduleTokenRefresh(h)
    /\ UNCHANGED <<users, refreshTokens, redis, resp, calls>>

\* login.isSuccess: useLogin's onSuccess has set the new access token
useAuth_loginSuccess ==
    /\ hook.status = "mounted"
    /\ LET h == [hook EXCEPT !.accessToken = "fresh"]
       IN  /\ CanSchedule(h)
           /\ hook' = scheduleTokenRefresh(h)
    /\ UNCHANGED <<users, refreshTokens, redis, resp, calls>>

\* useLogout's onSuccess
useAuth_logoutSuccess ==
    /\ hook.status = "mounted"
    /\ hook.accessToken # "none"
    /\ hook' = [hook EXCEPT !.accessToken = "none"]
    /\ UNCHANGED <<users, refreshTokens, redis, resp, calls>>

\* a pending timer fires and its callback awaits refresh.mutateAsync()
timerFires(id) ==
    /\ id \in hook.timers
    /\ hook.inFlight < MaxInFlight
    /\ hook' = [hook EXCEPT !.timers = @ \ {id}, !.inFlight = @ + 1]
    /\ UNCHANGED <<users, refreshTokens, redis, resp, calls>>

\* a refresh request succeeds: useRefreshToken's onSuccess stores the new
\* access token, then the caller invalidates auth.getMe and schedules again
refreshResolves ==
    /\ hook.inFlight > 0
    /\ LET h == [hook EXCEPT !.inFlight = @ - 1, !.accessToken = "fresh"]
       IN  /\ CanSchedule(h)
           /\ hook' = scheduleTokenRefresh(h)
    /\ UNCHANGED <<users, refreshTokens, redis, resp, calls>>

\* a refresh request fails: setAccessToken(null)
refreshRejects ==
    /\ hook.inFlight > 0
    /\ hook' = [hook EXCEPT !.inFlight = @ - 1, !.accessToken = "none"]
    /\ UNCHANGED <<users, refreshTokens, redis, resp, calls>>

\* time passes: the access token comes within 60 seconds of its expiry
tokenAges ==
    /\ hook.accessToken = "fresh"
    /\ hook' = [hook EXCEPT !.accessToken = "near"]
    /\ UNCHANGED <<users, refreshTokens, redis, resp, calls>>

\* the cleanup of the effect at unmount
useAuth_unmount ==
    /\ hook.status = "mounted"
    /\ hook' = [(IF hook.refreshTimeoutRef # 0
                 THEN clearTimeout(hook, hook.refreshTimeoutRef) ELSE hook)
                  EXCEPT !.status = "unmounted"]
    /\ UNCHANGED <<users, refreshTokens, redis, resp, calls>>

\* the page loads with or without an access token in the module
InitHook ==
    /\ users = {}
    /\ refreshTokens = <<>>
    /\ redis = EmptyRedis
    /\ resp = NoReply
    /\ calls = NoCalls
    /\ hook \in {[NoHook EXCEPT !.accessToken = t] : t \in {"none", "fresh", "near"}}

NextHook ==
    \/ useAuth_mount
    \/ useAuth_effectAgain
    \/ useAuth_loginSuccess
    \/ useAuth_logoutSuccess
    \/ \E id \in 1 .. MaxTimers : timerFires(id)
    \/ refreshResolves
    \/ refreshRejects
    \/ tokenAges
    \/ useAuth_unmount

SpecHook == InitHook /\ [][NextHook]_vars

\* ================================================================= claims
\* this step is a call of procedure op (every call flips resp.seq)
Called(op) == resp'.seq # resp.seq /\ resp'.op = op

\* the rows of the users table with this email
UserRows(us, email) == {u \in us : u.email = email}

storedOTPOf(r, email, type) ==
    IF type = "otp" THEN getOTP(r, email) ELSE getPasswordResetOTP(r, email)

\* C1: a user row for an email appears only in a verifyOTP call for that
\* email that presents the OTP stored for it while its registration is still
\* staged; no other step (register among them) adds a row, and a verifyOTP
\* without staged registration adds none.  From the empty users table this
\* gives every reachable state.
C1_UserRowOnlyByVerifiedOTP ==
    [][\A e \in Emails :
         (UserRows(users, e) = {} /\ UserRows(users', e) # {})
         => /\ Called("verifyOTP")
            /\ resp'.email = e
            /\ getOTP(redis, e) # NoOTP
            /\ resp'.otp = getOTP(redis, e)
            /\ getRegistrationData(redis, e) # {}
            /\ \E d \in getRegistrationData(redis, e) :
                 \E u \in users' : /\ u.email = e
                                   /\ u.password_hash = d.password_hash]_vars

\* a registration was verified: the row of a@x.com exists
C1_Witness ==
    /\ resp.op = "verifyOTP"
    /\ resp.code = "OK"
    /\ UserRows(users, "a@x.com") # {}

\* C3: for either purpose, the wrong code that brings the failure count to
\* five sets the 15-minute lock and purges the stored OTP; while that lock is
\* active no OTP is stored for the pair, and every verification call for the
\* pair is rejected, adds no user row and does not set the reset-verified
\* flag, whatever code it presents.
C3_LockedAfterFiveWrongCodes ==
    /\ [](\A e \in Emails, ty \in OtpTypes :
            redis.lock[<<e, ty>>] = LOCK_MINUTES => storedOTPOf(redis, e, ty) = NoOTP)
    /\ [][\A e \in Emails :
            /\ ( /\ Called("verifyOTP") /\ resp'.email = e
                 /\ getOTP(redis, e) # NoOTP /\ resp'.otp # getOTP(redis, e)
                 /\ getOTPFailCount(redis, e) = MAX_FAIL_ATTEMPTS - 1 )
               => /\ redis'.lock[<<e, "otp">>] = LOCK_MINUTES
                  /\ getOTP(redis', e) = NoOTP
                  /\ resp'.code = "UNAUTHORIZED"
            /\ ( /\ Called("verifyForgetPasswordOTP") /\ resp'.email = e
                 /\ getPasswordResetOTP(redis, e) # NoOTP
                 /\ resp'.otp # getPasswordResetOTP(redis, e)
                 /\ getAttempts(redis, e, "password_reset") = MAX_FAIL_ATTEMPTS - 1 )
               => /\ redis'.lock[<<e, "password_reset">>] = LOCK_MINUTES
                  /\ getPasswordResetOTP(redis', e) = NoOTP
                  /\ resp'.code = "UNAUTHORIZED"
            /\ ( /\ Called("verifyOTP") /\ resp'.email = e
                 /\ redis.lock[<<e, "otp">>] = LOCK_MINUTES )
               => /\ resp'.code # "OK"
                  /\ users' = users
            /\ ( /\ Called("verifyForgetPasswordOTP") /\ resp'.email = e
                 /\ redis.lock[<<e, "password_reset">>] = LOCK_MINUTES )
               => /\ resp'.code # "OK"
                  /\ redis'.passwordResetVerified[e] = redis.passwordResetVerified[e]]_vars

\* a verifyOTP was rejected under the 15-minute lock of its pair
C3_Witness ==
    /\ redis.lock[<<"a@x.com", "otp">>] = LOCK_MINUTES
    /\ redis.registrationData # {}
    /\ resp.op = "verifyOTP"
    /\ resp.code = "NOT_FOUND"

\* C4: once the user row of an email exists (its OTP was verified), every
\* later verifyOTP for that email fails with NOT_FOUND or CONFLICT, whatever
\* code it presents, and the users table stays as it is.
C4_VerifyOTPSucceedsOnce ==
    [][\A e \in Emails :
         (Called("verifyOTP") /\ resp'.email = e /\ UserRows(users, e) # {})
         => /\ resp'.code \in {"NOT_FOUND", "CONFLICT"}
            /\ users' = users]_vars

\* the verified code was presented a second time
C4_Witness ==
    /\ resp.op = "verifyOTP"
    /\ resp.code = "NOT_FOUND"
    /\ UserRows(users, "a@x.com") # {}

\* the rows of family f, by their positions in the table
FamilyRows(rows, f) == {i \in DOMAIN rows : rows[i].familyId = f}

Families(rows) == {rows[i].familyId : i \in DOMAIN rows}

MaxOf(S) == CHOOSE m \in S : \A x \in S : x <= m

\* refreshToken, given this raw token, finds no valid row
Rejected(rows, token) == selectValidToken(rows, hashToken(token)) = {}

\* C2: a login stores one non-revoked row under a family id no other row
\* carries; a refreshToken that accepts a token stores the new row under the
\* family id of the presented token's row and leaves that new row the only
\* non-revoked row of the family, every earlier token of the family being
\* rejected.  So in every state a family holds at most one non-revoked row,
\* the latest one, and all rows of a family belong to one user.
C2_RotationKeepsOneValidRowPerFamily ==
    /\ [](\A f \in Families(refreshTokens) :
            LET rows == FamilyRows(refreshTokens, f)
                valid == {i \in rows : ~refreshTokens[i].isRevoked}
            IN  /\ valid \subseteq {MaxOf(rows)}
                /\ \A i, j \in rows : refreshTokens[i].userId = refreshTokens[j].userId)
    /\ [][(Called("refreshToken") /\ resp'.code = "OK")
          => LET new == Len(refreshTokens')
                 f == refreshTokens[resp'.cookie].familyId
             IN  /\ new = Len(refreshTokens) + 1
                 /\ resp'.setCookie = <<new, COOKIE_MAX_AGE>>
                 /\ refreshTokens'[new].familyId = f
                 /\ refreshTokens'[new].userId = refreshTokens[resp'.cookie].userId
                 /\ {i \in FamilyRows(refreshTokens', f) :
                        ~refreshTokens'[i].isRevoked} = {new}
                 /\ ~Rejected(refreshTokens', new)
                 /\ \A t \in FamilyRows(refreshTokens', f) \ {new} :
                        Rejected(refreshTokens', t)]_vars
    /\ [][(Called("login") /\ resp'.code = "OK")
          => LET new == Len(refreshTokens')
             IN  /\ new = Len(refreshTokens) + 1
                 /\ FamilyRows(refreshTokens', refreshTokens'[new].familyId) = {new}
                 /\ ~refreshTokens'[new].isRevoked]_vars

\* one login and two rotations: a family of three rows, the latest one valid
C2_Witness ==
    /\ Len(refreshTokens) = 3
    /\ FamilyRows(refreshTokens, refreshTokens[1].familyId) = {1, 2, 3}
    /\ refreshTokens[1].isRevoked
    /\ refreshTokens[2].isRevoked
    /\ ~refreshTokens[3].isRevoked
    /\ resp.op = "refreshToken"
    /\ resp.code = "OK"

\* C5: logout always answers its acknowledgement and clears the cookie; when
\* the presented token has a row, revoked or not, every row of that row's
\* family is revoked afterwards and every token of the family is rejected by
\* refreshToken; and a family whose rows are all revoked stays so, no row
\* being added to it.
C5_LogoutRevokesFamily ==
    /\ [][Called("logout")
          => /\ resp'.code = "OK"
             /\ resp'.message = "Logged out successfully"
             /\ resp'.setCookie = <<NoCookie, 0>>
             /\ Len(refreshTokens') = Len(refreshTokens)
             /\ \A t \in DOMAIN refreshTokens :
                    resp'.cookie = t
                    => \A j \in FamilyRows(refreshTokens, refreshTokens[t].familyId) :
                          /\ refreshTokens'[j].isRevoked
                          /\ Rejected(refreshTokens', j)
             /\ resp'.cookie \notin DOMAIN refreshTokens
                    => refreshTokens' = refreshTokens]_vars
    /\ [][\A f \in Families(refreshTokens) :
            (\A i \in FamilyRows(refreshTokens, f) : refreshTokens[i].isRevoked)
            => /\ FamilyRows(refreshTokens', f) = FamilyRows(refreshTokens, f)
               /\ \A i \in FamilyRows(refreshTokens', f) : refreshTokens'[i].isRevoked]_vars

\* a logout presented a token that an earlier rotation had revoked, while a
\* second family of the same user stays valid
C5_Witness ==
    /\ resp.op = "logout"
    /\ resp.cookie = 1
    /\ Len(refreshTokens) = 3
    /\ FamilyRows(refreshTokens, refreshTokens[1].familyId) = {1, 3}
    /\ refreshTokens[1].isRevoked
    /\ refreshTokens[3].isRevoked
    /\ ~refreshTokens[3].expired
    /\ refreshTokens[2].userId = refreshTokens[1].userId
    /\ ~refreshTokens[2].isRevoked

C6_ResetRevokesAllFamilies ==
    /\ [][(Called("resetPassword") /\ resp'.code = "OK")
          => /\ Len(refreshTokens') = Len(refreshTokens)
             /\ \A i \in DOMAIN refreshTokens :
                    refreshTokens[i].userId = resp'.userId
                    => /\ refreshTokens'[i].isRevoked
                       /\ Rejected(refreshTokens', i)]_vars
    /\ [][\A i \in DOMAIN refreshTokens :
            /\ i \in DOMAIN refreshTokens'
            /\ refreshTokens[i].isRevoked => refreshTokens'[i].isRevoked]_vars

\* a reset revoked the rows of two families of the user at once
C6_Witness ==
    /\ resp.op = "resetPassword"
    /\ resp.code = "OK"
    /\ Len(refreshTokens) = 3
    /\ Cardinality(Families(refreshTokens)) = 2
    /\ \A i \in DOMAIN refreshTokens :
          refreshTokens[i].isRevoked /\ ~refreshTokens[i].expired

\* C7: a row of the users table changes only in a resetPassword call for its
\* email made while the reset-verified flag of that email is set; the flag
\* becomes set only in a verifyForgetPasswordOTP call for the email that
\* presents the stored reset OTP and succeeds; and a resetPassword call made
\* without the flag answers UNAUTHORIZED and leaves the users table, the
\* refresh-token rows and the vault as they are.
C7_ResetNeedsVerifiedFlag ==
    [][\A e \in Emails :
         /\ UserRows(users', e) # UserRows(users, e)
            => /\ Called("resetPassword")
               /\ resp'.email = e
               /\ resp'.code = "OK"
               /\ redis.passwordResetVerified[e]
         /\ (redis'.passwordResetVerified[e] /\ ~redis.passwordResetVerified[e])
            => /\ Called("verifyForgetPasswordOTP")
               /\ resp'.email = e
               /\ resp'.code = "OK"
               /\ getPasswordResetOTP(redis, e) # NoOTP
               /\ resp'.otp = getPasswordResetOTP(redis, e)
         /\ (Called("resetPassword") /\ resp'.email = e
                /\ ~redis.passwordResetVerified[e])
            => /\ resp'.code = "UNAUTHORIZED"
               /\ resp'.message =
                    "Password reset not verified. Please verify the OTP first."
               /\ UNCHANGED <<users, refreshTokens, redis>>]_vars

\* a reset was refused for want of the flag, with a session and a reset OTP
\* in place
C7_Witness ==
    /\ resp.op = "resetPassword"
    /\ resp.code = "UNAUTHORIZED"
    /\ ~redis.passwordResetVerified["a@x.com"]
    /\ getPasswordResetOTP(redis, "a@x.com") # NoOTP
    /\ \E i \in DOMAIN refreshTokens : ~refreshTokens[i].isRevoked

GenericAck == "If an account with that email exists, a reset link has been sent."

\* C8: forgotPassword answers the same generic acknowledgement for every
\* email and every state of the vault.
C8_ForgotPasswordAlwaysGenericAck ==
    resp.op = "forgotPassword" => (resp.code = "OK" /\ resp.message = GenericAck)

\* C10 as stated: every failing refreshToken answers the one error
\* 'Invalid refresh token', the missing cookie included.
C10_OneErrorForEveryMiss ==
    (resp.op = "refreshToken" /\ resp.code # "OK")
    => (resp.code = "UNAUTHORIZED" /\ resp.message = "Invalid refresh token")

\* C10, amended: refreshToken fails with the code UNAUTHORIZED in every
\* case; a token that is unknown, expired or revoked gets the one message
\* 'Invalid refresh token', a request without the cookie gets 'No refresh
\* token'; a failing call inserts and revokes no row and sets no cookie.
C10_MissesAreUnauthorized ==
    [][Called("refreshToken")
       => LET c == resp'.cookie
          IN  /\ c = NoCookie
                 => /\ resp'.code = "UNAUTHORIZED"
                    /\ resp'.message = "No refresh token"
              /\ ( /\ c # NoCookie
                   /\ \/ c \notin DOMAIN refreshTokens
                      \/ refreshTokens[c].isRevoked
                      \/ refreshTokens[c].expired )
                 => /\ resp'.code = "UNAUTHORIZED"
                    /\ resp'.message = "Invalid refresh token"
              /\ resp'.code # "OK"
                 => /\ refreshTokens' = refreshTokens
                    /\ resp'.setCookie = <<>>]_vars

\* an expired token that was never revoked was refused
C10_Witness ==
    /\ resp.op = "refreshToken"
    /\ resp.message = "Invalid refresh token"
    /\ resp.cookie \in DOMAIN refreshTokens
    /\ refreshTokens[resp.cookie].expired
    /\ ~refreshTokens[resp.cookie].isRevoked

\* C11 as stated: a refreshToken call that presents a token whose row is
\* already revoked leaves every row of that row's family revoked, so that no
\* token of the family, the latest one included, is accepted afterwards.
C11_ReuseRevokesFamily ==
    [][\A t \in DOMAIN refreshTokens :
         ( /\ Called("refreshToken")
           /\ resp'.cookie = t
           /\ refreshTokens[t].isRevoked )
         => \A j \in FamilyRows(refreshTokens', refreshTokens[t].familyId) :
               /\ refreshTokens'[j].isRevoked
               /\ Rejected(refreshTokens', j)]_vars

\* C12 as stated: a verifyForgetPasswordOTP that follows a successful
\* verifyForgetPasswordOTP of the same email and presents the same code fails
\* with NOT_FOUND, the stored reset OTP having been invalidated.
C12_ResetOTPSingleUse ==
    [][( /\ Called("verifyForgetPasswordOTP")
         /\ resp.op = "verifyForgetPasswordOTP"
         /\ resp.code = "OK"
         /\ resp'.email = resp.email
         /\ resp'.otp = resp.otp )
       => /\ resp'.code = "NOT_FOUND"
          /\ resp'.message = "OTP expired or not found. Please request a new one."]_vars

\* C13: a register that succeeds leaves one staged payload and a stored OTP
\* for the email; the staged payload changes only in a register call or by
\* being removed; and a verifyOTP that succeeds adds exactly one user row,
\* the only row of the email, with is_verified = true and the name, password
\* hash and role of the staged payload, and leaves no staged registration,
\* no stored OTP and no failure count for the email.
C13_VerifiedRegistrationIsPromoted ==
    [][\A e \in Emails :
         /\ (Called("register") /\ resp'.email = e /\ resp'.code = "OK")
            => /\ Cardinality(getRegistrationData(redis', e)) = 1
               /\ getOTP(redis', e) # NoOTP
               /\ UserRows(users', e) = {}
         /\ getRegistrationData(redis', e) # getRegistrationData(redis, e)
            => \/ Called("register") /\ resp'.email = e
               \/ getRegistrationData(redis', e) = {}
         /\ (Called("verifyOTP") /\ resp'.email = e /\ resp'.code = "OK")
            => /\ resp'.otp = getOTP(redis, e)
               /\ \E d \in getRegistrationData(redis, e) :
                    \E u \in users' :
                       /\ users' = users \cup {u}
                       /\ u \notin users
                       /\ UserRows(users', e) = {u}
                       /\ u.is_verified = TRUE
                       /\ u.name = d.name
                       /\ u.password_hash = d.password_hash
                       /\ u.role = d.role
               /\ getRegistrationData(redis', e) = {}
               /\ getOTP(redis', e) = NoOTP
               /\ getOTPFailCount(redis', e) = 0]_vars

\* a SELLER registration with the second password was verified while the
\* one-hour lock of the send limiter was set: its row exists and the vault
\* holds no payload, OTP or failure count for the email
C13_Witness ==
    /\ resp.op = "verifyOTP"
    /\ resp.code = "OK"
    /\ \E u \in users : /\ u.email = "a@x.com"
                        /\ u.is_verified
                        /\ u.role = "SELLER"
                        /\ u.password_hash = hashPassword("Pw2!Pw2!")
    /\ getRegistrationData(redis, "a@x.com") = {}
    /\ getOTP(redis, "a@x.com") = NoOTP
    /\ getOTPFailCount(redis, "a@x.com") = 0
    /\ redis.lock[<<"a@x.com", "otp">>] = RATE_LIMIT_LOCK_MINUTES

\* C14 as stated: a resendOTP made with a pending registration, outside the
\* cooldown and with no lock set succeeds while fewer than 5 OTPs were sent
\* for the email this hour (unless the mail provider refuses the message),
\* and is rejected with TOO_MANY_REQUESTS, storing no new OTP, once 5 were.
C14_ResendSucceedsUnderCeiling ==
    [][\A e \in Emails :
         ( /\ Called("resendOTP")
           /\ resp'.email = e
           /\ getRegistrationData(redis, e) # {}
           /\ UserRows(users, e) = {}
           /\ ~checkCooldown(redis, e, "otp")
           /\ ~checkLock(redis, e, "otp") )
         => /\ getOTPSendCount(redis, e) < MAX_SEND_ATTEMPTS_PER_HOUR
               => \/ resp'.code = "OK"
                  \/ resp'.message = "Failed to send verification email."
            /\ getOTPSendCount(redis, e) >= MAX_SEND_ATTEMPTS_PER_HOUR
               => /\ resp'.code = "TOO_MANY_REQUESTS"
                  /\ resp'.message = "Maximum OTP requests exceeded for this hour."
                  /\ getOTP(redis', e) = getOTP(redis, e)]_vars

\* C15: a resetPassword that succeeds leaves no reset OTP, a zero counter, no
\* cooldown and no reset-verified flag for the email, so that
\* checkPasswordResetVerification reports isVerified = false; the flag is set
\* again only by a verifyForgetPasswordOTP that succeeds; and a resetPassword
\* that follows a successful one with no call in between answers
\* UNAUTHORIZED and changes no user row.
C15_ResetClearsResetState ==
    [][\A e \in Emails :
         /\ (Called("resetPassword") /\ resp'.email = e /\ resp'.code = "OK")
            => /\ getPasswordResetOTP(redis', e) = NoOTP
               /\ getAttempts(redis', e, "password_reset") = 0
               /\ ~checkCooldown(redis', e, "password_reset")
               /\ ~checkPasswordResetVerified(redis', e)
               /\ checkPasswordResetVerification(e)' = [isVerified |-> FALSE]
         /\ (checkPasswordResetVerification(e)'.isVerified
                /\ ~checkPasswordResetVerification(e).isVerified)
            => /\ Called("verifyForgetPasswordOTP")
               /\ resp'.email = e
               /\ resp'.code = "OK"
         /\ ( /\ Called("resetPassword") /\ resp'.email = e
              /\ resp.op = "resetPassword" /\ resp.email = e /\ resp.code = "OK" )
            => /\ resp'.code = "UNAUTHORIZED"
               /\ resp'.message =
                    "Password reset not verified. Please verify the OTP first."
               /\ UNCHANGED <<users, refreshTokens, redis>>]_vars

\* the password was reset and a second resetPassword was refused
C15_Witness ==
    /\ resp.op = "resetPassword"
    /\ resp.code = "UNAUTHORIZED"
    /\ \E u \in users : u.email = "a@x.com" /\ u.password_hash = hashPassword("Pw2!Pw2!")
    /\ getPasswordResetOTP(redis, "a@x.com") = NoOTP
    /\ getAttempts(redis, "a@x.com", "password_reset") = 0
    /\ ~checkPasswordResetVerification("a@x.com").isVerified

\* C16 as stated: whatever the interleaving of the refreshToken calls, no
\* state holds two rows of one family that are neither revoked nor expired.
C16_OneValidRowPerFamilyUnderInterleaving ==
    \A f \in Families(refreshTokens) :
        Cardinality({i \in FamilyRows(refreshTokens, f) :
                        /\ ~refreshTokens[i].isRevoked
                        /\ ~refreshTokens[i].expired}) <= 1

\* C17 as stated: with verification calls interleaving, no more than five
\* wrong codes are ever counted against one issued OTP (the threshold check,
\* the comparison and the increment acting as one step), and no user row is
\* added by a verification while the 15-minute lock of its pair is set.
C17_VerificationIsAtomic ==
    [][\A e \in Emails :
         /\ getOTPFailCount(redis', e) <= MAX_FAIL_ATTEMPTS
         /\ UserRows(users', e) # UserRows(users, e)
            => redis.lock[<<e, "otp">>] # LOCK_MINUTES]_vars

C19_LockedNeverMatches ==
    [][\A e \in Emails :
         /\ ( /\ Called("verifyOTP") /\ resp'.email = e
              /\ checkLock(redis, e, "otp") )
            => /\ resp'.code = "TOO_MANY_REQUESTS"
               /\ users' = users
         /\ ( /\ Called("verifyForgetPasswordOTP") /\ resp'.email = e
              /\ checkLock(redis, e, "password_reset") )
            => /\ resp'.code = "TOO_MANY_REQUESTS"
               /\ ~checkPasswordResetVerified(redis', e)]_vars

\* C20 as stated, for the reset purpose: the first wrong code after a
\* forgotPassword that issued the OTP is answered as a mismatch with 4
\* attempts remaining, each further wrong code with one less than the
\* mismatch before it, and the wrong code that follows a mismatch with 1
\* remaining sets the 15-minute lock.
C20_RemainingCountsFailuresOnly ==
    [][\A e \in Emails :
         ( /\ Called("verifyForgetPasswordOTP")
           /\ resp'.email = e
           /\ resp.email = e
           /\ getPasswordResetOTP(redis, e) # NoOTP
           /\ resp'.otp # getPasswordResetOTP(redis, e) )
         => /\ (resp.op = "forgotPassword" /\ resp.code = "OK")
               => /\ resp'.code = "UNAUTHORIZED"
                  /\ resp'.remaining = MAX_FAIL_ATTEMPTS - 1
                  /\ redis'.lock = redis.lock
            /\ (resp.op = "verifyForgetPasswordOTP" /\ resp.remaining > 1)
               => /\ resp'.code = "UNAUTHORIZED"
                  /\ resp'.remaining = resp.remaining - 1
                  /\ redis'.lock = redis.lock
            /\ (resp.op = "verifyForgetPasswordOTP" /\ resp.remaining = 1)
               => /\ resp'.code = "UNAUTHORIZED"
                  /\ resp'.remaining = 0
                  /\ redis'.lock[<<e, "password_reset">>] = LOCK_MINUTES]_vars

\* C21 as stated: a refreshToken call that ends with an error has changed
\* nothing, so the family of the token it presented still holds a row that
\* is not revoked; and a rotation inserts its new row only after it has
\* revoked the family (the call is past its revocation when it inserts).
C21_RotationAllOrNothing ==
    [][\A w \in Workers :
         /\ ( /\ calls[w].pc \in {"revoke", "store"}
              /\ calls'[w] = Idle
              /\ resp'.code # "OK" )
            => \E i \in FamilyRows(refreshTokens', calls[w].tokenRecord.familyId) :
                  ~refreshTokens'[i].isRevoked
         /\ ( /\ calls[w].pc # "idle"
              /\ Len(refreshTokens') > Len(refreshTokens)
              /\ calls'[w] = Idle )
            => calls[w].pc = "store"]_vars

\* Date.now() and the Date constructor count milliseconds
MS_PER_SECOND == 1000

\* C22 as stated: every stored refresh-token row expires 30 days (2,592,000
\* seconds, the Max-Age of the cookie) after its creation: its lifetime in
\* milliseconds, taken to seconds, is the Max-Age.
C22_RowsLiveThirtyDays ==
    \A i \in DOMAIN refreshTokens :
        refreshTokens[i].expiresIn \div MS_PER_SECOND = COOKIE_MAX_AGE

\* what the vault holds for an email under each purpose
VerificationState(r, e) ==
    <<getRegistrationData(r, e), getOTP(r, e), getOTPFailCount(r, e),
      getOTPSendCount(r, e), getAttempts(r, e, "otp"),
      checkCooldown(r, e, "otp"), r.lock[<<e, "otp">>]>>

ResetState(r, e) ==
    <<getPasswordResetOTP(r, e), getAttempts(r, e, "password_reset"),
      checkCooldown(r, e, "password_reset"), r.lock[<<e, "password_reset">>],
      checkPasswordResetVerified(r, e)>>

ResetProcedures ==
    {"forgotPassword", "verifyForgetPasswordOTP", "resendPasswordResetOTP",
     "resetPassword"}

VerificationProcedures == {"register", "verifyOTP", "resendOTP"}

\* C23: a call of a password-reset procedure leaves the verification state
\* of every email as it is, a call of a verification procedure leaves the
\* reset state of every email as it is, and what either limiter answers does
\* not depend on the lock of the other purpose.
C23_PurposesAreIsolated ==
    /\ [][\A e \in Emails :
            /\ (\E op \in ResetProcedures : Called(op))
               => VerificationState(redis', e) = VerificationState(redis, e)
            /\ (\E op \in VerificationProcedures : Called(op))
               => ResetState(redis', e) = ResetState(redis, e)]_vars
    /\ [](\A e \in Emails :
            /\ checkPasswordResetRateLimit(setLock(redis, e, 0, "otp"), e).error
                 = checkPasswordResetRateLimit(
                      setLock(redis, e, LOCK_MINUTES, "otp"), e).error
            /\ checkOTPRateLimit(setLock(redis, e, 0, "password_reset"), e, "otp").error
                 = checkOTPRateLimit(
                      setLock(redis, e, LOCK_MINUTES, "password_reset"), e, "otp").error)

\* a reset OTP was issued while the lock of the verification purpose was set
C23_Witness ==
    /\ resp.op = "forgotPassword"
    /\ resp.code = "OK"
    /\ checkLock(redis, "a@x.com", "otp")
    /\ ~checkLock(redis, "a@x.com", "password_reset")
    /\ getPasswordResetOTP(redis, "a@x.com") # NoOTP

\* C25 as stated: a register call that fails leaves the staged registration
\* and the stored OTP of the email as they were.
C25_FailedRegisterChangesNothing ==
    [][\A e \in Emails :
         (Called("register") /\ resp'.email = e /\ resp'.code # "OK")
         => /\ getRegistrationData(redis', e) = getRegistrationData(redis, e)
            /\ getOTP(redis', e) = getOTP(redis, e)]_vars

\* C26 as stated: a send that succeeds raises the send counter of its pair
\* by exactly one, and a send request that is rejected or whose mail fails
\* leaves the counter as it is.  The send counter of a pair is the counter
\* the limiters compare with the hourly limit: getAttempts(email, type).
C26_SendCounterCountsSends ==
    [][\A e \in Emails :
         /\ ( /\ Called("register") \/ Called("resendOTP")
              /\ resp'.email = e )
            => getAttempts(redis', e, "otp") =
                 getAttempts(redis, e, "otp")
                   + (IF resp'.code = "OK" THEN 1 ELSE 0)
         /\ ( /\ Called("forgotPassword") \/ Called("resendPasswordResetOTP")
              /\ resp'.email = e )
            => getAttempts(redis', e, "password_reset") =
                 getAttempts(redis, e, "password_reset")
                   + (IF resp'.code = "OK" THEN 1 ELSE 0)]_vars

\* the rows a procedure acts on when it is handed this raw token: the rows
\* that share owner and family with the row stored under the token's digest
ActedOn(rows, token) ==
    {i \in DOMAIN rows :
        \E j \in DOMAIN rows : /\ rows[j].tokenHash = hashToken(token)
                               /\ rows[i].userId = rows[j].userId
                               /\ rows[i].familyId = rows[j].familyId}

\* C27: logout and refreshToken change the revoked flag only of rows that
\* share owner and family with the row of the presented token, so the flag
\* of every row of another family of that user and of every row of another
\* user stays as it was; login changes the revoked flag of no existing row;
\* and none of the three removes a row.
C27_RevocationStaysInFamily ==
    [][/\ (Called("logout") \/ Called("refreshToken"))
          => /\ Len(refreshTokens') >= Len(refreshTokens)
             /\ \A i \in DOMAIN refreshTokens :
                    i \notin ActedOn(refreshTokens, resp'.cookie)
                    => refreshTokens'[i].isRevoked = refreshTokens[i].isRevoked
       /\ Called("login")
          => /\ Len(refreshTokens') >= Len(refreshTokens)
             /\ \A i \in DOMAIN refreshTokens :
                    refreshTokens'[i].isRevoked = refreshTokens[i].isRevoked]_vars

\* a logout revoked the one row of its family while a later family of the
\* same user and a family of the other user are still valid
C27_Witness ==
    /\ resp.op = "logout"
    /\ resp.cookie = 1
    /\ Len(refreshTokens) = 3
    /\ refreshTokens[1].isRevoked
    /\ refreshTokens[2].userId = refreshTokens[1].userId
    /\ refreshTokens[2].familyId # refreshTokens[1].familyId
    /\ ~refreshTokens[2].isRevoked
    /\ refreshTokens[3].userId # refreshTokens[1].userId
    /\ ~refreshTokens[3].isRevoked

\* C28: every user row the register/verifyOTP flow has created is verified;
\* no step turns a verified row into an unverified one; and login on such an
\* account never answers 'Please verify your email before logging in'.
C28_FlowAccountsAreVerified ==
    /\ [](\A u \in users : u.is_verified)
    /\ [][\A u \in users, v \in users' :
            (v.id = u.id /\ u.is_verified) => v.is_verified]_vars
    /\ [][Called("login")
          => resp'.message # "Please verify your email before logging in"]_vars

\* the account made by the flow logged in, changed its password through the
\* reset flow (which revoked that session), and logged in with the new
\* password
C28_Witness ==
    /\ resp.op = "login"
    /\ resp.code = "OK"
    /\ resp.password = "Pw2!Pw2!"
    /\ \E u \in UserRows(users, "a@x.com") :
          /\ u.is_verified
          /\ u.password_hash = hashPassword("Pw2!Pw2!")
    /\ Len(refreshTokens) = 2
    /\ refreshTokens[1].isRevoked
    /\ ~refreshTokens[2].isRevoked

\* C29 as stated: verifyRefreshToken(token, userId) is true exactly when the
\* lookup of refreshToken accepts the token and the accepted row belongs to
\* that user: a row with the token's digest, not revoked and not expired.
C29_VerifyAgreesWithLookup ==
    \A t \in Cookies \ {NoCookie}, u \in users :
        verifyRefreshToken(refreshTokens, t, u.id)
        <=> \E i \in selectValidToken(refreshTokens, hashToken(t)) :
                refreshTokens[i].userId = u.id

\* C24 as stated: an OTP is stored for an (email, purpose) only while no
\* cooldown of that pair is active, however the steps of concurrent send
\* requests interleave, so that two requests that both started outside the
\* cooldown cannot both store an OTP.
C24_SendsKeepCooldownApart ==
    [][\A w \in Workers :
         (calls[w].pc = "setPasswordResetOTP" /\ calls'[w].pc = "setCooldown")
         => ~checkCooldown(redis, calls[w].email, "password_reset")]_vars

\* C30 as stated: a useAuth instance has at most one refresh timer pending
\* at any time, and once the instance is unmounted none of its timers is
\* pending, also after a refresh request that was in flight at the unmount
\* has completed.
C30_OneTimerAndNoneAfterUnmount ==
    /\ Cardinality(hook.timers) <= 1
    /\ hook.status = "unmounted" => hook.timers = {}

====
